---- MODULE Spec2Model ----
(***************************************************************************)
(* A model of public/script_audi.js: the VPAID creative VpaidVideoPlayer   *)
(* (attribute store, event callbacks, quartile tracking, media source      *)
(* selection) and the tracking session built by createEvent (pixel         *)
(* triggers with their dedup policy, and the redirect click gate).         *)
(*                                                                         *)
(* JavaScript runs every handler to completion on one event loop, so each  *)
(* handler is one atomic action.  An uncaught exception ends the handler   *)
(* where it is thrown: the assignments made before it stay, the rest of    *)
(* the handler does not run.                                               *)
(***************************************************************************)
EXTENDS Integers, Sequences, FiniteSets, TLC

(***************************************************************************)
(* Bounds of the model.                                                    *)
(***************************************************************************)
\* The media element reports a duration of MaxDuration or 2 * MaxDuration
\* seconds; currentTime is a whole number of seconds within the duration.
MaxDuration == 2
\* The creative payload lists at most MaxVideos media candidates.
MaxVideos == 3
\* trigger is called at most MaxOcc times for one ordinary event name, and
\* at most MaxRepeat times for "click" and for a name Object.prototype holds.
MaxOcc == 32
MaxRepeat == 3
\* setInterval hands out at most MaxTimers timer ids, and stopAd is called at
\* most MaxStops times.
MaxTimers == 3
MaxStops == 2
\* The remaining-time timer callbacks run at most MaxTicks times in all.
MaxTicks == 3
\* subscribe is called at most MaxSubs times for one event name between two
\* calls of unsubscribe for it.
MaxSubs == 2
\* The longest clickPixel list handed to buildUrl.
MaxPixels == 2

(***************************************************************************)
(* Program constants.                                                      *)
(***************************************************************************)
\* attributes_ defaults (constructor).
DefaultDuration == 30
DefaultRemainingTime == 13
\* The ceiling of fires of one interaction event name (event.trigger).
MaxFires == 30
\* addParams: the elapsed time is counted in seconds (getTime() differences
\* divided by 1000) and capped at 3000.
MsPerSecond == 1000
MaxElapsed == 3000
\* The remaining-time timer subtracts 0.25 (resumeAd): remainingTime is
\* counted in quarter seconds.
QuartersPerSecond == 4
\* setAdVolume sets videoSlot_.volume to value / 100.0: the volume attribute
\* is counted in hundredths, videoSlot_.volume in ten-thousandths.
VolumeScale == 100

\* this.quartileEvents_: the ordered thresholds (constructor).
quartileEvents_ ==
    << [event |-> "AdVideoStart",         value |-> 0],
       [event |-> "AdVideoFirstQuartile", value |-> 25],
       [event |-> "AdVideoMidpoint",      value |-> 50],
       [event |-> "AdVideoThirdQuartile", value |-> 75],
       [event |-> "AdVideoComplete",      value |-> 100] >>

QuartileNames == { quartileEvents_[i].event : i \in 1..Len(quartileEvents_) }

\* The lifecycle event names the player dispatches.
EventNames ==
    QuartileNames \cup
    { "AdLoaded", "AdError", "AdDurationChange",
      "AdStarted", "AdImpression", "AdStopped", "AdVolumeChange",
      "AdSizeChange", "AdPaused", "AdPlaying", "AdRemainingTimeChange",
      "AdSkipped", "AdExpanded" }

\* The callbacks a wrapper may subscribe (opaque functions of the wrapper).
Callbacks == { "cb1" }

\* Media durations the video element may report on a tick.
MediaDurations == { MaxDuration, 2 * MaxDuration }

VARIABLES
    \* ---- VpaidVideoPlayer fields
    attributes_,         \* this.attributes_
    eventsCallbacks_,    \* this.eventsCallbacks_: name -> "absent" | "null" | callback
    lastQuartileIndex_,  \* this.lastQuartileIndex_ (0-based, as in the code)
    videoSlot_,          \* this.videoSlot_: the media element (src, currentTime, duration)
    parameters_,         \* this.parameters_: the parsed creative payload
    canPlay,             \* the mimetypes for which videoSlot_.canPlayType is non-empty
    initCalled,          \* the wrapper has called initAd
    inited,              \* initAd registered the timeupdate listener
    \* ---- observation of the player (history, not program state)
    lastCall,            \* what the most recent operation did
    quartileLog,         \* quartile callbacks invoked so far, in order
    monotone,            \* the percent played never decreased from tick to tick
    tickThrew,           \* some progress tick ended in an uncaught TypeError
    \* ---- VpaidVideoPlayer fields and timers of the lifecycle operations
    intervalId_,         \* this.intervalId_: 0 for null, else a timer id
    timers,              \* the interval timers setInterval started, not cleared
    nextTimerId,         \* the id the next setInterval returns
    stopTimeouts,        \* pending setTimeout(callEvent_, 75, ['AdStopped'])
    slotAttrs,           \* videoSlot_: its width and height attributes, volume
    adParams,            \* this.parameters_: its fields poi (the id) and config
    \* ---- observation of the lifecycle (history, not program state)
    playing,             \* resumeAd was called, and no pauseAd or stopAd since
    srcEntry,            \* the poiList entry startAd took the source from
    lastSubscribed,      \* name -> the subscribe calls since its last unsubscribe
    ran,                 \* the bound callbacks the latest operation invoked
    stopCalls,           \* calls of stopAd
    stoppedDispatches,   \* dispatches of AdStopped
    ticks,               \* runs of the remaining-time timer callback
    args,                \* the arguments of the latest lifecycle call
    \* ---- the tracking session: the closure variables of createEvent
    allowRedirect,       \* var allowRedirect
    alreadyClicked,      \* var alreadyClicked
    eventAlreadyFired,   \* var eventAlreadyFired: name -> its fire record
    aElement,            \* var aElement: the redirect anchor, once init_load has run
    bound,               \* clickCustom has put triggerRedirection on an element
    pos_interact,        \* var pos_interact: the pair "x_y" of the last interaction
    constant_params,     \* var constant_params: the keys setParam has stored
    \* ---- the environment of the session
    trackerClickUrl,     \* var trackerClickUrl: its query string, as (key, value) pairs
    nbCallsInUrl,        \* var nbCallsInUrl, as init() computes it
    hostAddParams,       \* the global scope holds a function named addParams
    gClickResolved,      \* config.macro.gClick does not contain CLICK_URL_UNESC
    clock,               \* milliseconds since timeStart (new Date() - timeStart)
    \* ---- observation of the session (history, not program state)
    pixels,              \* name -> tracker pixels loaded by trigger for that name
    gClickPixels,        \* loads of the click-confirmation pixel
    navAllowed,          \* anchor clicks handleRedirection let navigate
    everArmed,           \* allowRedirect has been true
    occ,                 \* name -> calls of trigger for that name
    firstType,           \* name -> eventType of the first call of trigger
    onlyI,               \* name -> every call of trigger so far passed "i"
    lastParams,          \* the parameters addParams attached to the latest firing
    lastBuilt,           \* the latest buildUrl call: its arguments and its result
    lastTrack            \* what the most recent session operation did

playerVars ==
    << attributes_, eventsCallbacks_, lastQuartileIndex_, videoSlot_, parameters_,
       canPlay, initCalled, inited, lastCall, quartileLog, monotone, tickThrew >>

trackVars ==
    << allowRedirect, alreadyClicked, eventAlreadyFired, aElement, bound,
       pos_interact, constant_params, hostAddParams, gClickResolved, clock,
       pixels, gClickPixels, navAllowed, everArmed, occ, firstType, onlyI,
       lastParams, lastTrack, trackerClickUrl, nbCallsInUrl, lastBuilt >>

\* The tracker url of the session and what buildUrl made of it.
urlVars == << trackerClickUrl, nbCallsInUrl, lastBuilt >>

lifeVars ==
    << intervalId_, timers, nextTimerId, stopTimeouts, slotAttrs, adParams,
       playing, srcEntry, lastSubscribed, ran, stopCalls, stoppedDispatches,
       ticks, args >>

vars == << playerVars, trackVars, lifeVars >>

(***************************************************************************)
(* VpaidVideoPlayer: the constructor.                                      *)
(***************************************************************************)
\* this.attributes_ as the constructor sets it.
DefaultAttributes ==
    [ companions     |-> "",
      desiredBitrate |-> 256,
      duration       |-> DefaultDuration,
      expanded       |-> FALSE,
      height         |-> 50,
      icons          |-> FALSE,
      linear         |-> TRUE,
      remainingTime  |-> DefaultRemainingTime * QuartersPerSecond,
      skippableState |-> FALSE,
      viewMode       |-> "normal",
      width          |-> 50,
      volume         |-> 1 * VolumeScale ]

\* The record lastCall holds after an operation: the events handed to the
\* dispatcher, the callbacks that ran, whether the operation ended in an
\* uncaught exception, and the cursor and cached duration it started from.
CallRecord(op, events, invoked, thrown) ==
    [ op |-> op, events |-> events, invoked |-> invoked, thrown |-> thrown,
      idxBefore |-> lastQuartileIndex_, durationBefore |-> attributes_.duration ]

NoCall ==
    [ op |-> "none", events |-> <<>>, invoked |-> <<>>, thrown |-> FALSE,
      idxBefore |-> 0, durationBefore |-> DefaultDuration ]

\* new VpaidVideoPlayer()
InitPlayer ==
    /\ attributes_ = DefaultAttributes
    /\ eventsCallbacks_ = [ e \in EventNames |-> "absent" ]
    /\ lastQuartileIndex_ = 0
    /\ videoSlot_ = [ src |-> "none", currentTime |-> 0, duration |-> 0 ]
    /\ parameters_ = [ videos |-> <<>> ]
    /\ canPlay = {}
    /\ initCalled = FALSE
    /\ inited = FALSE
    /\ lastCall = NoCall
    /\ quartileLog = <<>>
    /\ monotone = TRUE
    /\ tickThrew = FALSE
    /\ intervalId_ = 0
    /\ timers = {}
    /\ nextTimerId = 1
    /\ stopTimeouts = 0
    /\ slotAttrs = [ width |-> 0, height |-> 0,
                     volume |-> 1 * VolumeScale * VolumeScale ]
    /\ adParams = [ poi |-> "missing", config |-> FALSE ]
    /\ playing = FALSE
    /\ srcEntry = 0
    /\ lastSubscribed = [ e \in EventNames |-> << >> ]
    /\ ran = << >>
    /\ stopCalls = 0
    /\ stoppedDispatches = 0
    /\ ticks = 0
    /\ args = << >>

(***************************************************************************)
(* The event dispatcher.                                                   *)
(***************************************************************************)
\* callEvent_: the callback is called when the name is a key of
\* eventsCallbacks_.  A key that unsubscribe set to null is still a key, and
\* calling null raises a TypeError.
callEvent_(cbs, ev) ==
    IF cbs[ev] = "absent" THEN "noop"
    ELSE IF cbs[ev] = "null" THEN "throw"
    ELSE "invoked"

\* this.eventsCallbacks_[name](): the call timeUpdateHandler_ makes without
\* looking the key up first.  A missing key (undefined) or null raises.
callDirect(cbs, ev) ==
    IF cbs[ev] \in { "absent", "null" } THEN "throw" ELSE "invoked"

\* subscribe(aCallback, eventName, aContext)
subscribe(cb, ev) ==
    /\ eventsCallbacks_' = [ eventsCallbacks_ EXCEPT ![ev] = cb ]
    /\ lastCall' = CallRecord("subscribe", <<>>, <<>>, FALSE)
    /\ UNCHANGED << attributes_, lastQuartileIndex_, videoSlot_, parameters_,
                    canPlay, initCalled, inited, quartileLog, monotone, tickThrew >>

\* unsubscribe(eventName)
unsubscribe(ev) ==
    /\ eventsCallbacks_' = [ eventsCallbacks_ EXCEPT ![ev] = "null" ]
    /\ lastCall' = CallRecord("unsubscribe", <<>>, <<>>, FALSE)
    /\ UNCHANGED << attributes_, lastQuartileIndex_, videoSlot_, parameters_,
                    canPlay, initCalled, inited, quartileLog, monotone, tickThrew >>

(***************************************************************************)
(* Media source selection and initAd.                                      *)
(***************************************************************************)
\* The loop of updateVideoSlot_: the index of the first candidate whose
\* mimetype the media element can play, 0 when there is none.
RECURSIVE FirstPlayableFrom(_, _, _)
FirstPlayableFrom(videos, playable, i) ==
    IF i > Len(videos) THEN 0
    ELSE IF videos[i].mimetype \in playable THEN i
    ELSE FirstPlayableFrom(videos, playable, i + 1)

\* The loop without its break: the last playable candidate wins.
LastPlayable(videos, playable) ==
    LET ok == { i \in 1..Len(videos) : videos[i].mimetype \in playable } IN
    IF ok = {} THEN 0 ELSE CHOOSE i \in ok : \A j \in ok : j <= i

FirstPlayable(videos, playable) == FirstPlayableFrom(videos, playable, 1)

\* updateVideoSlot_: the new src, the events dispatched and how it ended.
updateVideoSlot_(videos, playable, cbs, src) ==
    LET i == FirstPlayable(videos, playable) IN
    IF i > 0
    THEN [ src |-> videos[i].url, events |-> <<>>, invoked |-> <<>>,
           thrown |-> FALSE ]
    ELSE LET out == callEvent_(cbs, "AdError") IN
         [ src |-> src, events |-> << "AdError" >>,
           invoked |-> IF out = "invoked" THEN << "AdError" >> ELSE <<>>,
           thrown |-> out = "throw" ]

\* initAd(width, height, viewMode, desiredBitrate, creativeData, environmentVars):
\* videos is the parsed payload's list, playable the mimetypes the media
\* element of environmentVars can play.  The wrapper calls it once.
initAdLoadedFirst(width, height, viewMode, desiredBitrate, videos, playable) ==
    /\ ~initCalled
    /\ initCalled' = TRUE
    /\ LET upd    == updateVideoSlot_(videos, playable, eventsCallbacks_,
                                      videoSlot_.src)
           loaded == callEvent_(eventsCallbacks_, "AdLoaded")
       IN
       /\ attributes_' = [ attributes_ EXCEPT !.width = width, !.height = height,
                             !.viewMode = viewMode,
                             !.desiredBitrate = desiredBitrate ]
       /\ parameters_' = [ videos |-> videos ]
       /\ canPlay' = playable
       /\ videoSlot_' = [ videoSlot_ EXCEPT !.src = upd.src ]
       /\ inited' = ~(upd.thrown \/ loaded = "throw")
       /\ lastCall' =
            CallRecord("initAd", << "AdLoaded" >> \o upd.events,
                       (IF loaded = "invoked" THEN << "AdLoaded" >> ELSE <<>>)
                          \o upd.invoked,
                       upd.thrown \/ loaded = "throw")
    /\ UNCHANGED << eventsCallbacks_, lastQuartileIndex_, quartileLog, monotone,
                    tickThrew >>

initAd(width, height, viewMode, desiredBitrate, videos, playable) ==
    /\ ~initCalled
    /\ initCalled' = TRUE
    /\ LET upd    == updateVideoSlot_(videos, playable, eventsCallbacks_,
                                      videoSlot_.src)
           loaded == callEvent_(eventsCallbacks_, "AdLoaded")
       IN
       /\ attributes_' = [ attributes_ EXCEPT !.width = width, !.height = height,
                             !.viewMode = viewMode,
                             !.desiredBitrate = desiredBitrate ]
       /\ parameters_' = [ videos |-> videos ]
       /\ canPlay' = playable
       /\ videoSlot_' = [ videoSlot_ EXCEPT !.src = upd.src ]
       /\ IF upd.thrown
          THEN /\ inited' = FALSE
               /\ lastCall' = CallRecord("initAd", upd.events, upd.invoked, TRUE)
          ELSE /\ inited' = TRUE
               /\ lastCall' =
                    CallRecord("initAd",
                               upd.events \o << "AdLoaded" >>,
                               upd.invoked \o (IF loaded = "invoked"
                                               THEN << "AdLoaded" >> ELSE <<>>),
                               loaded = "throw")
    /\ UNCHANGED << eventsCallbacks_, lastQuartileIndex_, quartileLog, monotone,
                    tickThrew >>

(***************************************************************************)
(* Quartile tracking: timeUpdateHandler_.                                  *)
(***************************************************************************)
\* percentPlayed >= value, with percentPlayed = currentTime * 100.0 / duration
\* (duration > 0).
percentReached(cur, dur, value) == cur * 100 >= value * dur

\* The quartile part of the handler: the early return when the cursor is
\* past the last threshold, else at most one threshold reported per call.
QuartileStepRewind(idx, cbs, cur, dur) ==
    IF idx >= Len(quartileEvents_)
    THEN [ idx |-> 0, events |-> <<>>, invoked |-> <<>>, outcome |-> "return" ]
    ELSE LET q == quartileEvents_[idx + 1] IN
         IF percentReached(cur, dur, q.value)
         THEN IF callDirect(cbs, q.event) = "invoked"
              THEN [ idx |-> idx + 1, events |-> << q.event >>,
                     invoked |-> << q.event >>, outcome |-> "ok" ]
              ELSE [ idx |-> idx, events |-> << q.event >>, invoked |-> <<>>,
                     outcome |-> "throw" ]
         ELSE [ idx |-> idx, events |-> <<>>, invoked |-> <<>>, outcome |-> "ok" ]

QuartileStep(idx, cbs, cur, dur) ==
    IF idx >= Len(quartileEvents_)
    THEN [ idx |-> idx, events |-> <<>>, invoked |-> <<>>, outcome |-> "return" ]
    ELSE LET q == quartileEvents_[idx + 1] IN
         IF percentReached(cur, dur, q.value)
         THEN IF callDirect(cbs, q.event) = "invoked"
              THEN [ idx |-> idx + 1, events |-> << q.event >>,
                     invoked |-> << q.event >>, outcome |-> "ok" ]
              ELSE [ idx |-> idx, events |-> << q.event >>, invoked |-> <<>>,
                     outcome |-> "throw" ]
         ELSE [ idx |-> idx, events |-> <<>>, invoked |-> <<>>, outcome |-> "ok" ]

\* The duration check that ends the handler.
DurationStep(cached, cbs, dur) ==
    IF cached # dur
    THEN LET out == callEvent_(cbs, "AdDurationChange") IN
         [ duration |-> dur, events |-> << "AdDurationChange" >>,
           invoked |-> IF out = "invoked" THEN << "AdDurationChange" >> ELSE <<>>,
           thrown |-> out = "throw" ]
    ELSE [ duration |-> cached, events |-> <<>>, invoked |-> <<>>,
           thrown |-> FALSE ]

\* The media element's timeupdate event: it reports currentTime cur and
\* duration dur, and timeUpdateHandler_ runs.
timeUpdateHandler_(cur, dur) ==
    /\ inited
    /\ LET q == QuartileStep(lastQuartileIndex_, eventsCallbacks_, cur, dur)
           d == IF q.outcome = "ok"
                THEN DurationStep(attributes_.duration, eventsCallbacks_, dur)
                ELSE [ duration |-> attributes_.duration, events |-> <<>>,
                       invoked |-> <<>>, thrown |-> FALSE ]
           thrown == q.outcome = "throw" \/ d.thrown
       IN
       /\ videoSlot_' = [ videoSlot_ EXCEPT !.currentTime = cur, !.duration = dur ]
       /\ attributes_' = [ attributes_ EXCEPT !.remainingTime =
                                                  (dur - cur) * QuartersPerSecond,
                                              !.duration = d.duration ]
       /\ lastQuartileIndex_' = q.idx
       /\ quartileLog' = quartileLog \o q.invoked
       /\ lastCall' = CallRecord("timeupdate", q.events \o d.events,
                                 q.invoked \o d.invoked, thrown)
       /\ tickThrew' = (tickThrew \/ thrown)
       /\ monotone' = (monotone /\
                         (videoSlot_.duration = 0 \/
                          cur * videoSlot_.duration >= videoSlot_.currentTime * dur))
    /\ UNCHANGED << eventsCallbacks_, parameters_, canPlay, initCalled, inited >>


(***************************************************************************)
(* The tracking session: createEvent(config).                              *)
(***************************************************************************)
\* The event names trigger is called with: the redirect's own name, a
\* custom name, and a custom name that is also a property every object
\* inherits from Object.prototype.
TrackNames == { "click", "loaded_imp", "constructor" }
InheritedKeys == { "constructor" }
EventTypes == { "i", "t" }

\* No own property of that name in eventAlreadyFired.
NoRecord == [ present |-> FALSE, et |-> "none", hasNi |-> FALSE, ni |-> 0 ]

\* An interaction event as getPosition reads it: its own clientX and clientY
\* when it has them (a mouse event), and its targetTouches: "undefined" (a
\* mouse event), "empty", or a first touch with or without coordinates.
NoEvent ==
    [ hasClient |-> FALSE, clientX |-> 0, clientY |-> 0, touches |-> "undefined",
      touchX |-> 0, touchY |-> 0 ]

NoTrack ==
    [ op |-> "none", name |-> "none", eventType |-> "none", loaded |-> FALSE,
      thrown |-> FALSE, prevented |-> FALSE, evt |-> NoEvent ]

\* The viewport of the page: screenX and screenY of createEvent.
ScreenX == 200
ScreenY == 100

\* No position: the parameter p is absent.
NoPosition == << >>

\* No firing yet.
NoParams ==
    [ ms |-> 0, t |-> 0, et |-> "none", p |-> NoPosition, hasNi |-> FALSE,
      ni |-> 0, constants |-> {} ]

\* A string as the sequence of its characters, for the strings whose
\* characters encodeURIComponent looks at.
Str1(a) == << a >>
Str4(a, b, c, d) == << a, b, c, d >>

\* encodeURIComponent of one character: the reserved characters that occur
\* in the urls of the model are percent-encoded, the others are kept.
encodeChar(c) ==
    CASE c = ":" -> << "%", "3", "A" >>
      [] c = "/" -> << "%", "2", "F" >>
      [] c = "," -> << "%", "2", "C" >>
      [] c = "&" -> << "%", "2", "6" >>
      [] c = "=" -> << "%", "3", "D" >>
      [] OTHER -> << c >>

RECURSIVE encodeURIComponent(_)
encodeURIComponent(str) ==
    IF str = << >> THEN << >>
    ELSE encodeChar(Head(str)) \o encodeURIComponent(Tail(str))

\* Array.prototype.toString, which encodeURIComponent applies to an array
\* argument: the elements joined by commas.
RECURSIVE toString(_)
toString(arr) ==
    IF arr = << >> THEN << >>
    ELSE IF Len(arr) = 1 THEN arr[1]
    ELSE arr[1] \o << "," >> \o toString(Tail(arr))

\* The keys of a query string: a plain name, "call[i]" and "calli".
PlainKey(name) == [ name |-> name, index |-> 0, form |-> "plain" ]
CallKey(i) == [ name |-> "call", index |-> i, form |-> "bracket" ]
FlatKey(i) == [ name |-> "call", index |-> i, form |-> "flat" ]

Param(key, value) == [ key |-> key, value |-> value ]

\* uri.match(re) for re = "([?&])" + key + "=.*?(&|$)": the parameter k of
\* the uri is the one the expression matches.  The key is not escaped, so
\* the brackets of "call[i]" make a character class: for i below 10 the
\* expression matches a parameter named "calli" and never one named
\* "call[i]".
keyMatches(key, k) ==
    IF key.form = "bracket" THEN k = FlatKey(key.index) ELSE k = key

\* updateQueryStringParameter(uri, key, value): the first parameter the
\* expression matches is rewritten as key=value, else key=value is appended.
updateQueryStringParameter(uri, key, value) ==
    LET hits == { i \in 1..Len(uri) : keyMatches(key, uri[i].key) } IN
    IF hits # {}
    THEN LET first == CHOOSE i \in hits : \A j \in hits : i <= j IN
         [ uri EXCEPT ![first] = Param(key, value) ]
    ELSE Append(uri, Param(key, value))

\* trackerEventUrl.split('call[').length - 1
callsInUrl(uri) ==
    Cardinality({ i \in 1..Len(uri) : uri[i].key.form = "bracket" })

\* The url init() puts in place of an unresolved clickUrl macro:
\* ...click?b=BID&...&offer=CAMPAIGN_ID&r=https%3A%2F%2Fadotmob.com
\* &call[0]=top&call[1]=dsds&test=studio
DemoUrl ==
    << Param(PlainKey("b"), Str1("B")),
       Param(PlainKey("offer"), Str1("C")),
       Param(PlainKey("r"), encodeURIComponent(Str4("h", ":", "/", "m"))),
       Param(CallKey(0), Str1("t")),
       Param(CallKey(1), Str1("d")),
       Param(PlainKey("test"), Str1("s")) >>

\* No buildUrl call yet.
NoBuilt == [ url |-> << >>, clickPixel |-> << >>, redirect |-> << >> ]

\* init(), run by createEvent on config.macro.url.
init(uri) ==
    /\ trackerClickUrl = uri
    /\ nbCallsInUrl = callsInUrl(uri)
    /\ lastBuilt = NoBuilt

\* The loop of buildUrl from index i on: one call parameter per element of
\* clickPixel, each with the encoded clickPixel as its value.
RECURSIVE buildCalls(_, _, _, _)
buildCalls(redirect, clickPixel, n, i) ==
    IF i >= Len(clickPixel) THEN redirect
    ELSE buildCalls(updateQueryStringParameter(redirect, CallKey(n + i),
                        encodeURIComponent(toString(clickPixel))),
                    clickPixel, n, i + 1)

\* event.buildUrl(url, clickPixel) as a function of the session's
\* trackerClickUrl and nbCallsInUrl.  An absent url is the empty string and
\* an absent clickPixel the empty list: both leave the url as it is.
redirectUrl(tracker, n, url, clickPixel) ==
    buildCalls(IF url # << >>
               THEN updateQueryStringParameter(tracker, PlainKey("r"),
                                               encodeURIComponent(url))
               ELSE tracker,
               clickPixel, n, 0)

\* The closure variables as createEvent initialises them, before init_load,
\* for a configuration whose macro.url has the query string uri.
createEvent(host, resolved, uri) ==
    /\ allowRedirect = FALSE
    /\ alreadyClicked = FALSE
    /\ eventAlreadyFired = [ n \in TrackNames |-> NoRecord ]
    /\ aElement = [ exists |-> FALSE, href |-> "none" ]
    /\ bound = FALSE
    /\ pos_interact = << 1, 1 >>
    /\ constant_params = {}
    /\ hostAddParams = host
    /\ gClickResolved = resolved
    /\ clock = 0
    /\ lastParams = NoParams
    /\ pixels = [ n \in TrackNames |-> 0 ]
    /\ gClickPixels = 0
    /\ navAllowed = 0
    /\ everArmed = FALSE
    /\ occ = [ n \in TrackNames |-> 0 ]
    /\ firstType = [ n \in TrackNames |-> "none" ]
    /\ onlyI = [ n \in TrackNames |-> TRUE ]
    /\ lastTrack = NoTrack
    /\ init(uri)

\* The session of a creative whose clickUrl macro was left unresolved.
InitSession(host, resolved) == createEvent(host, resolved, DemoUrl)

\* eventName in eventAlreadyFired: own and inherited properties count.
KeyIn(name, rec) == rec.present \/ name \in InheritedKeys

\* The condition under which trigger fires: a click while the latch is
\* open, or a non-click name that is no key of eventAlreadyFired or whose
\* record has et "i" and ni below the ceiling (an absent ni compares false).
ShouldFireNoLatch(name, already, rec) ==
    \/ name = "click"
    \/ name # "click" /\
         (~KeyIn(name, rec) \/ (rec.et = "i" /\ rec.hasNi /\ rec.ni < MaxFires))

ShouldFireNoCeiling(name, already, rec) ==
    \/ name = "click" /\ ~already
    \/ name # "click" /\ (~KeyIn(name, rec) \/ (rec.et = "i" /\ rec.hasNi))

ShouldFire(name, already, rec) ==
    \/ name = "click" /\ ~already
    \/ name # "click" /\
         (~KeyIn(name, rec) \/ (rec.et = "i" /\ rec.hasNi /\ rec.ni < MaxFires))

\* The record of a name after a firing: created on the first one (a click's
\* with ni at the ceiling, an interaction event's with ni 1, a timing
\* event's without ni), ni incremented on the others.
RecordAfterFireRetyped(name, eventType, rec) ==
    IF ~KeyIn(name, rec)
    THEN [ present |-> TRUE, et |-> eventType,
           hasNi |-> (name = "click" \/ eventType = "i"),
           ni |-> IF name = "click" THEN MaxFires
                  ELSE IF eventType = "i" THEN 1 ELSE 0 ]
    ELSE [ rec EXCEPT !.et = eventType,
                      !.ni = IF rec.hasNi THEN rec.ni + 1 ELSE rec.ni ]

RecordAfterFire(name, eventType, rec) ==
    IF ~KeyIn(name, rec)
    THEN [ present |-> TRUE, et |-> eventType,
           hasNi |-> (name = "click" \/ eventType = "i"),
           ni |-> IF name = "click" THEN MaxFires
                  ELSE IF eventType = "i" THEN 1 ELSE 0 ]
    ELSE [ rec EXCEPT !.ni = IF rec.hasNi THEN rec.ni + 1 ELSE rec.ni ]

\* Math.round of a quotient num / den of non-negative integers.
round(num, den) == (2 * num + den) \div (2 * den)

\* The parameter t of addParams, ms milliseconds after timeStart: the
\* seconds elapsed, replaced by 3000 when above 3000, then rounded.
elapsedUncapped(ms) == round(ms, MsPerSecond)

elapsed(ms) ==
    IF ms > MaxElapsed * MsPerSecond THEN MaxElapsed ELSE round(ms, MsPerSecond)

\* event.addParams(eventType, oParams), oParams being the fire record rec
\* merged into the caller's params: t, et, p for an interaction event, the
\* record's ni, and the constant parameters.
addParams(eventType, rec, ms, pos, constants) ==
    [ ms |-> ms,
      t |-> elapsed(ms),
      et |-> eventType,
      p |-> IF eventType = "i" THEN pos ELSE NoPosition,
      hasNi |-> rec.hasNi,
      ni |-> rec.ni,
      constants |-> constants ]

\* event.trigger(eventName, eventType, params)
trigger(name, eventType) ==
    LET rec  == eventAlreadyFired[name]
        fire == ShouldFire(name, alreadyClicked, rec)
    IN
    /\ occ' = [ occ EXCEPT ![name] = @ + 1 ]
    /\ firstType' = [ firstType EXCEPT ![name] = IF occ[name] = 0 THEN eventType ELSE @ ]
    /\ onlyI' = [ onlyI EXCEPT ![name] = @ /\ eventType = "i" ]
    /\ eventAlreadyFired' =
         IF fire
         THEN [ eventAlreadyFired EXCEPT ![name] = RecordAfterFire(name, eventType, rec) ]
         ELSE eventAlreadyFired
    /\ alreadyClicked' =
         (alreadyClicked \/ (fire /\ ~KeyIn(name, rec) /\ name = "click"))
    /\ pixels' = [ pixels EXCEPT ![name] = IF fire THEN @ + 1 ELSE @ ]
    /\ lastParams' =
         IF fire
         THEN addParams(eventType, RecordAfterFire(name, eventType, rec), clock,
                        pos_interact, constant_params)
         ELSE lastParams
    /\ lastTrack' = [ NoTrack EXCEPT !.op = "trigger", !.name = name,
                                     !.eventType = eventType, !.loaded = fire ]
    /\ UNCHANGED << urlVars, allowRedirect, aElement, bound, hostAddParams, gClickResolved,
                    gClickPixels, navAllowed, everArmed, pos_interact,
                    constant_params, clock >>

\* init_load, the DOMContentLoaded listener: puts getPosition on the
\* document (captureInteraction), stores the viewport in the constant
\* parameters, finds or creates the redirect anchor and puts
\* handleRedirection on it.  The event fires once.
init_load ==
    /\ ~aElement.exists
    /\ aElement' = [ exists |-> TRUE, href |-> "trackerClickUrl" ]
    /\ constant_params' = constant_params \cup { "w", "h" }
    /\ lastTrack' = [ NoTrack EXCEPT !.op = "init_load" ]
    /\ UNCHANGED << urlVars, allowRedirect, alreadyClicked, eventAlreadyFired, bound,
                    hostAddParams, gClickResolved, pixels, gClickPixels,
                    navAllowed, everArmed, occ, firstType, onlyI,
                    pos_interact, clock, lastParams >>

\* event.clickCustom(url, cssElement, params, clickPixel) (and event.click):
\* puts the listener triggerRedirection on cssElement.
clickCustom ==
    /\ bound' = TRUE
    /\ lastTrack' = [ NoTrack EXCEPT !.op = "clickCustom" ]
    /\ UNCHANGED << urlVars, allowRedirect, alreadyClicked, eventAlreadyFired, aElement,
                    hostAddParams, gClickResolved, pixels, gClickPixels,
                    navAllowed, everArmed, occ, firstType, onlyI,
                    pos_interact, constant_params, clock, lastParams >>

\* How far triggerRedirection gets.  It calls addParams by its bare name,
\* which no enclosing function scope binds (the name of the function
\* expression assigned to event.addParams is local to that function), so
\* the call resolves in the global scope and raises a ReferenceError when
\* the host page defines no such function; then it assigns aElement.href,
\* which raises a TypeError while aElement is undefined.
RedirectionArms(host, anchorExists) == host /\ anchorExists

\* triggerRedirection: the click listener of a bound element.
triggerRedirection ==
    /\ bound
    /\ LET arms == RedirectionArms(hostAddParams, aElement.exists) IN
       /\ aElement' = IF arms THEN [ aElement EXCEPT !.href = "redirect" ] ELSE aElement
       /\ allowRedirect' = (allowRedirect \/ arms)
       /\ everArmed' = (everArmed \/ arms)
       /\ lastTrack' = [ NoTrack EXCEPT !.op = "triggerRedirection", !.thrown = ~arms ]
    /\ UNCHANGED << urlVars, alreadyClicked, eventAlreadyFired, bound, hostAddParams,
                    gClickResolved, pixels, gClickPixels, navAllowed, occ,
                    firstType, onlyI, pos_interact, constant_params, clock,
                    lastParams >>

\* The test of handleRedirection: the click may navigate.
GateOpenUnarmed(allow, already) == ~already

GateOpenUnlatched(allow, already) == allow

GateOpen(allow, already) == allow /\ ~already

\* The test inside the open gate: the confirmation pixel is loaded when
\* config.macro.gClick does not contain CLICK_URL_UNESC.
ConfirmationPixelLoadsAlways(resolved) == TRUE

ConfirmationPixelLoads(resolved) == resolved

\* handleRedirection(evt): the click listener of the redirect anchor.
handleRedirection ==
    /\ aElement.exists
    /\ LET open == GateOpen(allowRedirect, alreadyClicked)
           load == open /\ ConfirmationPixelLoads(gClickResolved)
       IN
       /\ alreadyClicked' = (alreadyClicked \/ open)
       /\ allowRedirect' = (allowRedirect /\ ~open)
       /\ gClickPixels' = IF load THEN gClickPixels + 1 ELSE gClickPixels
       /\ navAllowed' = IF open THEN navAllowed + 1 ELSE navAllowed
       /\ lastTrack' = [ NoTrack EXCEPT !.op = "handleRedirection",
                                        !.loaded = load,
                                        !.prevented = ~open ]
    /\ UNCHANGED << urlVars, eventAlreadyFired, aElement, bound, hostAddParams,
                    gClickResolved, pixels, everArmed, occ, firstType, onlyI,
                    pos_interact, constant_params, clock, lastParams >>

\* evt.clientX || evt.targetTouches[0].clientX (and the same for Y): the
\* event's own coordinate when it has one that is not 0, else the first
\* target touch's.  Reading targetTouches[0] raises a TypeError when the
\* event has no targetTouches, and reading its clientX raises one when the
\* list is empty; a touch without the coordinate gives undefined.
coordinate(hasClient, client, touches, touch) ==
    IF hasClient /\ client # 0
    THEN [ thrown |-> FALSE, defined |-> TRUE, value |-> client ]
    ELSE IF touches \in { "undefined", "empty" }
    THEN [ thrown |-> TRUE, defined |-> FALSE, value |-> 0 ]
    ELSE IF touches = "noCoordinates"
    THEN [ thrown |-> FALSE, defined |-> FALSE, value |-> 0 ]
    ELSE [ thrown |-> FALSE, defined |-> TRUE, value |-> touch ]

\* getPosition(evt): the listener captureInteraction puts on the document
\* for click, touchstart and mousedown.
getPosition(evt) ==
    LET x == coordinate(evt.hasClient, evt.clientX, evt.touches, evt.touchX)
        y == coordinate(evt.hasClient, evt.clientY, evt.touches, evt.touchY)
        thrown == x.thrown \/ y.thrown
    IN
    /\ aElement.exists
    /\ pos_interact' =
         IF thrown THEN pos_interact
         ELSE IF x.defined /\ y.defined
         THEN << round(x.value * 100, ScreenX), round(y.value * 100, ScreenY) >>
         ELSE << 0, 0 >>
    /\ lastTrack' = [ NoTrack EXCEPT !.op = "getPosition", !.thrown = thrown,
                                     !.evt = evt ]
    /\ UNCHANGED << urlVars, allowRedirect, alreadyClicked, eventAlreadyFired, aElement,
                    bound, hostAddParams, gClickResolved, pixels, gClickPixels,
                    navAllowed, everArmed, occ, firstType, onlyI,
                    constant_params, clock, lastParams >>

\* Time passes: the clock of new Date() moves on to ms milliseconds after
\* timeStart.
advance(ms) ==
    /\ ms > clock
    /\ clock' = ms
    /\ UNCHANGED << urlVars, allowRedirect, alreadyClicked, eventAlreadyFired, aElement,
                    bound, hostAddParams, gClickResolved, pixels, gClickPixels,
                    navAllowed, everArmed, occ, firstType, onlyI,
                    pos_interact, constant_params, lastParams, lastTrack >>

\* event.buildUrl(url, clickPixel)
buildUrl(url, clickPixel) ==
    /\ lastBuilt' = [ url |-> url, clickPixel |-> clickPixel,
                      redirect |-> redirectUrl(trackerClickUrl, nbCallsInUrl,
                                               url, clickPixel) ]
    /\ lastTrack' = [ NoTrack EXCEPT !.op = "buildUrl" ]
    /\ UNCHANGED << allowRedirect, alreadyClicked, eventAlreadyFired, aElement,
                    bound, hostAddParams, gClickResolved, pixels, gClickPixels,
                    navAllowed, everArmed, occ, firstType, onlyI, pos_interact,
                    constant_params, clock, lastParams, trackerClickUrl,
                    nbCallsInUrl >>

(***************************************************************************)
(* VpaidVideoPlayer: the lifecycle operations.                             *)
(***************************************************************************)
\* The functions and contexts a wrapper passes to subscribe.
Functions == { "f1", "f2" }
Contexts == { "ctxA", "ctxB" }

\* aCallback.bind(aContext): the bound function subscribe stores.
bind(aCallback, aContext) == aCallback \o "@" \o aContext

\* The player fields and observations a lifecycle operation may leave alone.
slotVars == << lastQuartileIndex_, videoSlot_, parameters_, canPlay, initCalled,
               inited, quartileLog, monotone, tickThrew >>

timerVars == << intervalId_, timers, nextTimerId, ticks >>

stopVars == << stopTimeouts, stopCalls, stoppedDispatches >>

\* One callEvent_(ev) statement of a handler: the event handed to the
\* dispatcher, the callback that ran, and whether the call raised.
dispatch(cbs, ev) ==
    LET out == callEvent_(cbs, ev) IN
    [ events  |-> << ev >>,
      invoked |-> IF out = "invoked" THEN << ev >> ELSE << >>,
      ran     |-> IF out = "invoked" THEN << cbs[ev] >> ELSE << >>,
      thrown  |-> out = "throw" ]

\* A handler that raised before its callEvent_ statement.
NoDispatch(thrown) ==
    [ events |-> << >>, invoked |-> << >>, ran |-> << >>, thrown |-> thrown ]

\* subscribe(aCallback, eventName, aContext), with the arguments observed.
subscribeKeepFirst(aCallback, eventName, aContext) ==
    /\ IF eventsCallbacks_[eventName] \in { "absent", "null" }
       THEN subscribe(bind(aCallback, aContext), eventName)
       ELSE subscribe(eventsCallbacks_[eventName], eventName)
    /\ lastSubscribed' = [ lastSubscribed EXCEPT ![eventName] =
                             Append(@, << aCallback, aContext >>) ]
    /\ ran' = << >>
    /\ args' = << aCallback, eventName, aContext >>
    /\ UNCHANGED << timerVars, stopVars, slotAttrs, adParams, playing, srcEntry >>

subscribeBound(aCallback, eventName, aContext) ==
    /\ subscribe(bind(aCallback, aContext), eventName)
    /\ lastSubscribed' = [ lastSubscribed EXCEPT ![eventName] =
                             Append(@, << aCallback, aContext >>) ]
    /\ ran' = << >>
    /\ args' = << aCallback, eventName, aContext >>
    /\ UNCHANGED << timerVars, stopVars, slotAttrs, adParams, playing, srcEntry >>

\* unsubscribe(eventName), with the argument observed.
unsubscribeBound(eventName) ==
    /\ unsubscribe(eventName)
    /\ lastSubscribed' = [ lastSubscribed EXCEPT ![eventName] = << >> ]
    /\ ran' = << >>
    /\ args' = << eventName >>
    /\ UNCHANGED << timerVars, stopVars, slotAttrs, adParams, playing, srcEntry >>

\* updateVideoPlayerSize_: sets the size of the media element inside a
\* try block whose catch clause is empty, so an exception of the DOM
\* (domThrows) ends the block and goes no further.
updateVideoPlayerSizeUncaught(attrs, slot, domThrows) ==
    [ slot   |-> IF domThrows THEN slot
                 ELSE [ slot EXCEPT !.width = attrs.width, !.height = attrs.height ],
      thrown |-> domThrows ]

updateVideoPlayerSize_(attrs, slot, domThrows) ==
    [ slot   |-> IF domThrows THEN slot
                 ELSE [ slot EXCEPT !.width = attrs.width, !.height = attrs.height ],
      thrown |-> FALSE ]

\* resizeAd(width, height, viewMode)
resizeAd(width, height, viewMode, domThrows) ==
    LET attrs == [ attributes_ EXCEPT !.width = width, !.height = height,
                                      !.viewMode = viewMode ]
        u == updateVideoPlayerSize_(attrs, slotAttrs, domThrows \/ ~initCalled)
        d == IF u.thrown THEN NoDispatch(TRUE)
             ELSE dispatch(eventsCallbacks_, "AdSizeChange")
    IN
    /\ attributes_' = attrs
    /\ slotAttrs' = u.slot
    /\ lastCall' = CallRecord("resizeAd", d.events, d.invoked, d.thrown)
    /\ ran' = d.ran
    /\ args' = << width, height, viewMode, domThrows >>
    /\ UNCHANGED << eventsCallbacks_, slotVars, timerVars, stopVars, adParams,
                    playing, srcEntry, lastSubscribed >>

\* What skipAd hands to the dispatcher.
skipStepAlways(skippableState, cbs) == dispatch(cbs, "AdSkipped")

skipStep(skippableState, cbs) ==
    IF skippableState THEN dispatch(cbs, "AdSkipped") ELSE NoDispatch(FALSE)

\* skipAd()
skipAd ==
    LET d == skipStep(attributes_.skippableState, eventsCallbacks_) IN
    /\ lastCall' = CallRecord("skipAd", d.events, d.invoked, d.thrown)
    /\ ran' = d.ran
    /\ args' = << >>
    /\ UNCHANGED << attributes_, eventsCallbacks_, slotVars, timerVars, stopVars,
                    slotAttrs, adParams, playing, srcEntry, lastSubscribed >>

\* getAdSkippableState() and getAdExpanded()
getAdSkippableState == attributes_.skippableState

getAdExpanded == attributes_.expanded

\* The identifier elem of expandAd, which no scope of the file declares: it
\* resolves in the global scope, to nothing ("undeclared", reading it
\* raises a ReferenceError) or to whatever the host page has put there,
\* with or without a requestFullscreen method.
ElemBindings == { "undeclared", "noFullscreen", "fullscreen" }

\* What expandAd does after it has set the attribute.
expandStepNoElem(elem, cbs) == dispatch(cbs, "AdExpanded")

expandStep(elem, cbs) ==
    IF elem = "undeclared" THEN NoDispatch(TRUE) ELSE dispatch(cbs, "AdExpanded")

\* expandAd()
expandAd(elem) ==
    LET d == expandStep(elem, eventsCallbacks_) IN
    /\ attributes_' = [ attributes_ EXCEPT !.expanded = TRUE ]
    /\ lastCall' = CallRecord("expandAd", d.events, d.invoked, d.thrown)
    /\ ran' = d.ran
    /\ args' = << elem >>
    /\ UNCHANGED << eventsCallbacks_, slotVars, timerVars, stopVars, slotAttrs,
                    adParams, playing, srcEntry, lastSubscribed >>

\* collapseAd()
collapseAd ==
    /\ attributes_' = [ attributes_ EXCEPT !.expanded = FALSE ]
    /\ lastCall' = CallRecord("collapseAd", << >>, << >>, FALSE)
    /\ ran' = << >>
    /\ args' = << >>
    /\ UNCHANGED << eventsCallbacks_, slotVars, timerVars, stopVars, slotAttrs,
                    adParams, playing, srcEntry, lastSubscribed >>

\* setAdVolume(value): value in hundredths.  Before initAd videoSlot_ is
\* undefined and the assignment to its volume raises a TypeError.
setAdVolume(value) ==
    LET d == IF initCalled THEN dispatch(eventsCallbacks_, "AdVolumeChange")
             ELSE NoDispatch(TRUE)
    IN
    /\ attributes_' = [ attributes_ EXCEPT !.volume = value ]
    /\ slotAttrs' = IF initCalled THEN [ slotAttrs EXCEPT !.volume = value ]
                    ELSE slotAttrs
    /\ lastCall' = CallRecord("setAdVolume", d.events, d.invoked, d.thrown)
    /\ ran' = d.ran
    /\ args' = << value >>
    /\ UNCHANGED << eventsCallbacks_, slotVars, timerVars, stopVars, adParams,
                    playing, srcEntry, lastSubscribed >>

\* muteButtonOnClick_: volume 0 becomes 1.0, any other volume becomes 0.
muteButtonOnClick_ ==
    LET value == IF attributes_.volume = 0 THEN 1 * VolumeScale ELSE 0
        d == IF initCalled THEN dispatch(eventsCallbacks_, "AdVolumeChange")
             ELSE NoDispatch(TRUE)
    IN
    /\ attributes_' = [ attributes_ EXCEPT !.volume = value ]
    /\ slotAttrs' = IF initCalled
                    THEN [ slotAttrs EXCEPT !.volume = value * VolumeScale ]
                    ELSE slotAttrs
    /\ lastCall' = CallRecord("muteButtonOnClick_", d.events, d.invoked, d.thrown)
    /\ ran' = d.ran
    /\ args' = << >>
    /\ UNCHANGED << eventsCallbacks_, slotVars, timerVars, stopVars, adParams,
                    playing, srcEntry, lastSubscribed >>

\* clearInterval(this.intervalId_) under if (this.intervalId_).
clearInterval(running, id) == IF id # 0 THEN running \ { id } ELSE running

\* pauseAd(): pauses the media, dispatches AdPaused, clears the timer whose
\* id intervalId_ holds.  Also the listener of the media element's ended event.
pauseAd ==
    LET d == IF initCalled THEN dispatch(eventsCallbacks_, "AdPaused")
             ELSE NoDispatch(TRUE)
    IN
    /\ timers' = IF d.thrown THEN timers ELSE clearInterval(timers, intervalId_)
    /\ playing' = (playing /\ d.thrown)
    /\ lastCall' = CallRecord("pauseAd", d.events, d.invoked, d.thrown)
    /\ ran' = d.ran
    /\ args' = << >>
    /\ UNCHANGED << attributes_, eventsCallbacks_, slotVars, intervalId_,
                    nextTimerId, ticks, stopVars, slotAttrs, adParams, srcEntry,
                    lastSubscribed >>

\* resumeAd(): plays the media, dispatches AdPlaying, starts an interval
\* timer of 250 ms and stores its id in intervalId_ over the one it held.
resumeAd ==
    LET d == IF initCalled THEN dispatch(eventsCallbacks_, "AdPlaying")
             ELSE NoDispatch(TRUE)
    IN
    /\ timers' = IF d.thrown THEN timers ELSE timers \cup { nextTimerId }
    /\ intervalId_' = IF d.thrown THEN intervalId_ ELSE nextTimerId
    /\ nextTimerId' = IF d.thrown THEN nextTimerId ELSE nextTimerId + 1
    /\ playing' = (playing \/ ~d.thrown)
    /\ lastCall' = CallRecord("resumeAd", d.events, d.invoked, d.thrown)
    /\ ran' = d.ran
    /\ args' = << >>
    /\ UNCHANGED << attributes_, eventsCallbacks_, slotVars, ticks, stopVars,
                    slotAttrs, adParams, srcEntry, lastSubscribed >>

\* The callback of the interval timer id: subtracts 0.25 from remainingTime
\* and dispatches AdRemainingTimeChange.
intervalCallback(id) ==
    LET d == dispatch(eventsCallbacks_, "AdRemainingTimeChange") IN
    /\ id \in timers
    /\ attributes_' = [ attributes_ EXCEPT !.remainingTime = @ - 1 ]
    /\ ticks' = ticks + 1
    /\ lastCall' = CallRecord("intervalCallback", d.events, d.invoked, d.thrown)
    /\ ran' = d.ran
    /\ args' = << id >>
    /\ UNCHANGED << eventsCallbacks_, slotVars, intervalId_, timers, nextTimerId,
                    stopVars, slotAttrs, adParams, playing, srcEntry,
                    lastSubscribed >>

\* stopAd(): clears the timer whose id intervalId_ holds and schedules
\* callEvent_(['AdStopped']) 75 ms later.
stopAdImmediate ==
    LET d == dispatch(eventsCallbacks_, "AdStopped") IN
    /\ timers' = clearInterval(timers, intervalId_)
    /\ stopCalls' = stopCalls + 1
    /\ stoppedDispatches' = stoppedDispatches + 1
    /\ playing' = FALSE
    /\ lastCall' = CallRecord("stopAd", d.events, d.invoked, d.thrown)
    /\ ran' = d.ran
    /\ args' = << >>
    /\ UNCHANGED << attributes_, eventsCallbacks_, slotVars, intervalId_,
                    nextTimerId, ticks, stopTimeouts, slotAttrs, adParams,
                    srcEntry, lastSubscribed >>

stopAd ==
    /\ timers' = clearInterval(timers, intervalId_)
    /\ stopTimeouts' = stopTimeouts + 1
    /\ stopCalls' = stopCalls + 1
    /\ playing' = FALSE
    /\ lastCall' = CallRecord("stopAd", << >>, << >>, FALSE)
    /\ ran' = << >>
    /\ args' = << >>
    /\ UNCHANGED << attributes_, eventsCallbacks_, slotVars, intervalId_,
                    nextTimerId, ticks, stoppedDispatches, slotAttrs, adParams,
                    srcEntry, lastSubscribed >>

\* The timeout stopAd scheduled elapses: callEvent_(['AdStopped']).  The
\* array argument is converted to the property key "AdStopped".
stopTimeout ==
    LET d == dispatch(eventsCallbacks_, "AdStopped") IN
    /\ stopTimeouts > 0
    /\ stopTimeouts' = stopTimeouts - 1
    /\ stoppedDispatches' = stoppedDispatches + 1
    /\ lastCall' = CallRecord("stopTimeout", d.events, d.invoked, d.thrown)
    /\ ran' = d.ran
    /\ args' = << >>
    /\ UNCHANGED << attributes_, eventsCallbacks_, slotVars, timerVars, stopCalls,
                    slotAttrs, adParams, playing, srcEntry, lastSubscribed >>

\* startAd: the table poiList.  Every lom1, lom2 and lom3 field of the
\* source holds this one URL.
AgenLom1 ==
    "https://assets.adotmob.com/Audi/111023/audio/AGEN+-+AUDI+JMA+A3+TFSIE+25%2B5+LOM1+29.09.23.mp3"

poiList ==
    <<
       [ c |-> "AGEN", poi |-> "spb7mc5cxgfp", lom1 |-> AgenLom1, lom2 |-> AgenLom1, lom3 |-> AgenLom1 ],
       [ c |-> "AIX EN PROVENCE", poi |-> "speze074p4bt", lom1 |-> AgenLom1, lom2 |-> AgenLom1, lom3 |-> AgenLom1 ],
       [ c |-> "ALBI", poi |-> "spc9b9qetsuy", lom1 |-> AgenLom1, lom2 |-> AgenLom1, lom3 |-> AgenLom1 ],
       [ c |-> "ALENCON", poi |-> "u085dennpuq8", lom1 |-> AgenLom1, lom2 |-> AgenLom1, lom3 |-> AgenLom1 ],
       [ c |-> "ANGERS", poi |-> "gbrw1fjfn2qt", lom1 |-> AgenLom1, lom2 |-> AgenLom1, lom3 |-> AgenLom1 ],
       [ c |-> "ANGOULEME", poi |-> "u005uhg9gw0s", lom1 |-> AgenLom1, lom2 |-> AgenLom1, lom3 |-> AgenLom1 ],
       [ c |-> "ANNECY", poi |-> "u0hkccc4tj6k", lom1 |-> AgenLom1, lom2 |-> AgenLom1, lom3 |-> AgenLom1 ],
       [ c |-> "ANNEMASSE", poi |-> "u0hqydzb34j2", lom1 |-> AgenLom1, lom2 |-> AgenLom1, lom3 |-> AgenLom1 ],
       [ c |-> "ARLES", poi |-> "spg29se8wsw0", lom1 |-> AgenLom1, lom2 |-> AgenLom1, lom3 |-> AgenLom1 ],
       [ c |-> "AUBAGNE", poi |-> "speyr2fjgvx3", lom1 |-> AgenLom1, lom2 |-> AgenLom1, lom3 |-> AgenLom1 ],
       [ c |-> "AUXERRE", poi |-> "u06xcp594zeu", lom1 |-> AgenLom1, lom2 |-> AgenLom1, lom3 |-> AgenLom1 ],
       [ c |-> "AVIGNON", poi |-> "spg3yhrm1pvv", lom1 |-> AgenLom1, lom2 |-> AgenLom1, lom3 |-> AgenLom1 ],
       [ c |-> "BASTIA", poi |-> "spwdqtzu9zgh", lom1 |-> AgenLom1, lom2 |-> AgenLom1, lom3 |-> AgenLom1 ],
       [ c |-> "BAYONNE", poi |-> "ezwzjzxwem1q", lom1 |-> AgenLom1, lom2 |-> AgenLom1, lom3 |-> AgenLom1 ],
       [ c |-> "BEAUVAIS", poi |-> "u0c9201gzs5n", lom1 |-> AgenLom1, lom2 |-> AgenLom1, lom3 |-> AgenLom1 ],
       [ c |-> "BELFORT", poi |-> "u0kzh880cyk3", lom1 |-> AgenLom1, lom2 |-> AgenLom1, lom3 |-> AgenLom1 ],
       [ c |-> "BESANCON", poi |-> "u0khx6gcfyhy", lom1 |-> AgenLom1, lom2 |-> AgenLom1, lom3 |-> AgenLom1 ],
       [ c |-> "BEZIERS", poi |-> "spdqd5ke9yew", lom1 |-> AgenLom1, lom2 |-> AgenLom1, lom3 |-> AgenLom1 ],
       [ c |-> "BLOIS", poi |-> "u02yyk2344nm", lom1 |-> AgenLom1, lom2 |-> AgenLom1, lom3 |-> AgenLom1 ],
       [ c |-> "BORDEAUX", poi |-> "ezzxk832b5xr", lom1 |-> AgenLom1, lom2 |-> AgenLom1, lom3 |-> AgenLom1 ],
       [ c |-> "BORDEAUX", poi |-> "ezzx02hqdf66", lom1 |-> AgenLom1, lom2 |-> AgenLom1, lom3 |-> AgenLom1 ],
       [ c |-> "BOULOGNE SUR MER", poi |-> "u110kskk4fh1", lom1 |-> AgenLom1, lom2 |-> AgenLom1, lom3 |-> AgenLom1 ],
       [ c |-> "BOURG EN BRESSE", poi |-> "u05wxfrztdw3", lom1 |-> AgenLom1, lom2 |-> AgenLom1, lom3 |-> AgenLom1 ],
       [ c |-> "BOURGES", poi |-> "u03sn12y6n4u", lom1 |-> AgenLom1, lom2 |-> AgenLom1, lom3 |-> AgenLom1 ],
       [ c |-> "BOURGOIN JALLIEU", poi |-> "u05erdv9xr70", lom1 |-> AgenLom1, lom2 |-> AgenLom1, lom3 |-> AgenLom1 ],
       [ c |-> "BREST", poi |-> "gbsg6mc3xzyr", lom1 |-> AgenLom1, lom2 |-> AgenLom1, lom3 |-> AgenLom1 ],
       [ c |-> "BRIE COMTE ROBERT", poi |-> "u09v51v66rb8", lom1 |-> AgenLom1, lom2 |-> AgenLom1, lom3 |-> AgenLom1 ],
       [ c |-> "BRIVE LA GAILLARDE", poi |-> "u010c6ruuger", lom1 |-> AgenLom1, lom2 |-> AgenLom1, lom3 |-> AgenLom1 ],
       [ c |-> "BRUAY LA BUISSIERE", poi |-> "u0cz68zv5p5u", lom1 |-> AgenLom1, lom2 |-> AgenLom1, lom3 |-> AgenLom1 ],
       [ c |-> "CAEN", poi |-> "gbxz86ugjhtv", lom1 |-> AgenLom1, lom2 |-> AgenLom1, lom3 |-> AgenLom1 ],
       [ c |-> "CANNES", poi |-> "spubne6g0svu", lom1 |-> AgenLom1, lom2 |-> AgenLom1, lom3 |-> AgenLom1 ],
       [ c |-> "CARCASSONNE", poi |-> "sp9tud85qr61", lom1 |-> AgenLom1, lom2 |-> AgenLom1, lom3 |-> AgenLom1 ],
       [ c |-> "CASTRES", poi |-> "sp9xfpmn0672", lom1 |-> AgenLom1, lom2 |-> AgenLom1, lom3 |-> AgenLom1 ],
       [ c |-> "CESSY", poi |-> "u0hr6n6ptbsg", lom1 |-> AgenLom1, lom2 |-> AgenLom1, lom3 |-> AgenLom1 ],
       [ c |-> "CHALON SUR SAONE", poi |-> "u076ndj35ukn", lom1 |-> AgenLom1, lom2 |-> AgenLom1, lom3 |-> AgenLom1 ],
       [ c |-> "CHAMBERY", poi |-> "u0h5mzmbbkvk", lom1 |-> AgenLom1, lom2 |-> AgenLom1, lom3 |-> AgenLom1 ],
       [ c |-> "CHAMBOURCY", poi |-> "u09qnx4gyseh", lom1 |-> AgenLom1, lom2 |-> AgenLom1, lom3 |-> AgenLom1 ],
       [ c |-> "CHANGE", poi |-> "u0952ynqfk6m", lom1 |-> AgenLom1, lom2 |-> AgenLom1, lom3 |-> AgenLom1 ],
       [ c |-> "CHARTRES", poi |-> "u034pn2kcdnr", lom1 |-> AgenLom1, lom2 |-> AgenLom1, lom3 |-> AgenLom1 ],
       [ c |-> "CHATEAUROUX", poi |-> "u0e9t44u4gsc", lom1 |-> AgenLom1, lom2 |-> AgenLom1, lom3 |-> AgenLom1 ],
       [ c |-> "CHAUMONT", poi |-> "gbr7e1w2we6d", lom1 |-> AgenLom1, lom2 |-> AgenLom1, lom3 |-> AgenLom1 ],
       [ c |-> "CHOLET", poi |-> "u04hr92fm2zu", lom1 |-> AgenLom1, lom2 |-> AgenLom1, lom3 |-> AgenLom1 ],
       [ c |-> "CLERMONT FERRAND", poi |-> "u0t1xvv47f1q", lom1 |-> AgenLom1, lom2 |-> AgenLom1, lom3 |-> AgenLom1 ],
       [ c |-> "COLMAR", poi |-> "u0ccp4743pm8", lom1 |-> AgenLom1, lom2 |-> AgenLom1, lom3 |-> AgenLom1 ],
       [ c |-> "COMPIEGNE", poi |-> "u0cb0490424f", lom1 |-> AgenLom1, lom2 |-> AgenLom1, lom3 |-> AgenLom1 ],
       [ c |-> "CREIL", poi |-> "ezz0z0wgmer8", lom1 |-> AgenLom1, lom2 |-> AgenLom1, lom3 |-> AgenLom1 ],
       [ c |-> "DAX", poi |-> "u07t41nzps3q", lom1 |-> AgenLom1, lom2 |-> AgenLom1, lom3 |-> AgenLom1 ],
       [ c |-> "DIJON", poi |-> "u0fnquts8kez", lom1 |-> AgenLom1, lom2 |-> AgenLom1, lom3 |-> AgenLom1 ],
       [ c |-> "DOUAI", poi |-> "u08vq9h4npbm", lom1 |-> AgenLom1, lom2 |-> AgenLom1, lom3 |-> AgenLom1 ],
       [ c |-> "DREUX", poi |-> "u11dm8wbr989", lom1 |-> AgenLom1, lom2 |-> AgenLom1, lom3 |-> AgenLom1 ],
       [ c |-> "DUNKERQUE", poi |-> "u0sd5p05xm6r", lom1 |-> AgenLom1, lom2 |-> AgenLom1, lom3 |-> AgenLom1 ],
       [ c |-> "EPINAL", poi |-> "u08ygj13uywd", lom1 |-> AgenLom1, lom2 |-> AgenLom1, lom3 |-> AgenLom1 ],
       [ c |-> "EVREUX", poi |-> "u09grp0k9wv2", lom1 |-> AgenLom1, lom2 |-> AgenLom1, lom3 |-> AgenLom1 ],
       [ c |-> "FONTAINEBLEAU", poi |-> "spsz0mfehnn6", lom1 |-> AgenLom1, lom2 |-> AgenLom1, lom3 |-> AgenLom1 ],
       [ c |-> "FREJUS", poi |-> "spume42hvv5x", lom1 |-> AgenLom1, lom2 |-> AgenLom1, lom3 |-> AgenLom1 ],
       [ c |-> "GAP", poi |-> "u0h0cgw5puz1", lom1 |-> AgenLom1, lom2 |-> AgenLom1, lom3 |-> AgenLom1 ],
       [ c |-> "GRENOBLE", poi |-> "u0tt9dcwv33v", lom1 |-> AgenLom1, lom2 |-> AgenLom1, lom3 |-> AgenLom1 ],
       [ c |-> "HAGUENAU", poi |-> "u11b96mx6wsb", lom1 |-> AgenLom1, lom2 |-> AgenLom1, lom3 |-> AgenLom1 ],
       [ c |-> "HAZEBROUCK", poi |-> "gbqcz97u1h98", lom1 |-> AgenLom1, lom2 |-> AgenLom1, lom3 |-> AgenLom1 ],
       [ c |-> "LA ROCHE SUR YON", poi |-> "gbpnw01cjg4k", lom1 |-> AgenLom1, lom2 |-> AgenLom1, lom3 |-> AgenLom1 ],
       [ c |-> "LA ROCHELLE", poi |-> "gbtt1zee3zkn", lom1 |-> AgenLom1, lom2 |-> AgenLom1, lom3 |-> AgenLom1 ],
       [ c |-> "LANNION", poi |-> "u0fd51zexqbr", lom1 |-> AgenLom1, lom2 |-> AgenLom1, lom3 |-> AgenLom1 ],
       [ c |-> "LAON", poi |-> "gbx3wfwd2v42", lom1 |-> AgenLom1, lom2 |-> AgenLom1, lom3 |-> AgenLom1 ],
       [ c |-> "Le Havre", poi |-> "u0b1e6kmwz1h", lom1 |-> AgenLom1, lom2 |-> AgenLom1, lom3 |-> AgenLom1 ],
       [ c |-> "LE MANS", poi |-> "u080v1rzbnbq", lom1 |-> AgenLom1, lom2 |-> AgenLom1, lom3 |-> AgenLom1 ],
       [ c |-> "LE PUY EN VELAY", poi |-> "u04b645v4pd4", lom1 |-> AgenLom1, lom2 |-> AgenLom1, lom3 |-> AgenLom1 ],
       [ c |-> "LENS", poi |-> "u0cyxzn8mn09", lom1 |-> AgenLom1, lom2 |-> AgenLom1, lom3 |-> AgenLom1 ],
       [ c |-> "LES ULIS", poi |-> "u09scvq45sk6", lom1 |-> AgenLom1, lom2 |-> AgenLom1, lom3 |-> AgenLom1 ],
       [ c |-> "LILLE", poi |-> "u140p54kuxev", lom1 |-> AgenLom1, lom2 |-> AgenLom1, lom3 |-> AgenLom1 ],
       [ c |-> "LIMOGES", poi |-> "u00vj16yfqp3", lom1 |-> AgenLom1, lom2 |-> AgenLom1, lom3 |-> AgenLom1 ],
       [ c |-> "LIMONEST", poi |-> "u05ksd6wufep", lom1 |-> AgenLom1, lom2 |-> AgenLom1, lom3 |-> AgenLom1 ],
       [ c |-> "LONS LE SAUNIER", poi |-> "u07cx0c7td5e", lom1 |-> AgenLom1, lom2 |-> AgenLom1, lom3 |-> AgenLom1 ],
       [ c |-> "LORIENT", poi |-> "gbmxu48c137k", lom1 |-> AgenLom1, lom2 |-> AgenLom1, lom3 |-> AgenLom1 ],
       [ c |-> "LYON", poi |-> "u05kn6hkpbrs", lom1 |-> AgenLom1, lom2 |-> AgenLom1, lom3 |-> AgenLom1 ],
       [ c |-> "MACON", poi |-> "u05rm6hhqjz9", lom1 |-> AgenLom1, lom2 |-> AgenLom1, lom3 |-> AgenLom1 ],
       [ c |-> "MARNE LA VALLEE", poi |-> "u09vuy8sw8r5", lom1 |-> AgenLom1, lom2 |-> AgenLom1, lom3 |-> AgenLom1 ],
       [ c |-> "MARSEILLE", poi |-> "speyk1nmw3qf", lom1 |-> AgenLom1, lom2 |-> AgenLom1, lom3 |-> AgenLom1 ],
       [ c |-> "MEAUX", poi |-> "u0dn3kng2bkz", lom1 |-> AgenLom1, lom2 |-> AgenLom1, lom3 |-> AgenLom1 ],
       [ c |-> "MELUN", poi |-> "u09uk18vdgk5", lom1 |-> AgenLom1, lom2 |-> AgenLom1, lom3 |-> AgenLom1 ],
       [ c |-> "METZ", poi |-> "u0sr5jfpjxpu", lom1 |-> AgenLom1, lom2 |-> AgenLom1, lom3 |-> AgenLom1 ],
       [ c |-> "MONACO", poi |-> "spv2b8y2y2fd", lom1 |-> AgenLom1, lom2 |-> AgenLom1, lom3 |-> AgenLom1 ],
       [ c |-> "MONT DE MARSAN", poi |-> "ezz9vuh05t43", lom1 |-> AgenLom1, lom2 |-> AgenLom1, lom3 |-> AgenLom1 ],
       [ c |-> "MONTARGIS", poi |-> "u09by5xmrtft", lom1 |-> AgenLom1, lom2 |-> AgenLom1, lom3 |-> AgenLom1 ],
       [ c |-> "MONTAUBAN", poi |-> "spbfq2hns1b3", lom1 |-> AgenLom1, lom2 |-> AgenLom1, lom3 |-> AgenLom1 ],
       [ c |-> "MONTIGNY LE BRETONNE", poi |-> "u09mmz52w1kt", lom1 |-> AgenLom1, lom2 |-> AgenLom1, lom3 |-> AgenLom1 ],
       [ c |-> "MONTPELLIER", poi |-> "spdzbjj456sg", lom1 |-> AgenLom1, lom2 |-> AgenLom1, lom3 |-> AgenLom1 ],
       [ c |-> "MONTROUGE", poi |-> "u09tszm1get1", lom1 |-> AgenLom1, lom2 |-> AgenLom1, lom3 |-> AgenLom1 ],
       [ c |-> "MORLAIX", poi |-> "gbtk262p2160", lom1 |-> AgenLom1, lom2 |-> AgenLom1, lom3 |-> AgenLom1 ],
       [ c |-> "MULHOUSE", poi |-> "u0mpzcvcxt4h", lom1 |-> AgenLom1, lom2 |-> AgenLom1, lom3 |-> AgenLom1 ],
       [ c |-> "NANCY", poi |-> "u0skgxbm0u4w", lom1 |-> AgenLom1, lom2 |-> AgenLom1, lom3 |-> AgenLom1 ],
       [ c |-> "NANTES", poi |-> "gbqug4fkbctq", lom1 |-> AgenLom1, lom2 |-> AgenLom1, lom3 |-> AgenLom1 ],
       [ c |-> "NARBONNE", poi |-> "spdjefvu6wr5", lom1 |-> AgenLom1, lom2 |-> AgenLom1, lom3 |-> AgenLom1 ],
       [ c |-> "NEVERS", poi |-> "u065r49z3v5q", lom1 |-> AgenLom1, lom2 |-> AgenLom1, lom3 |-> AgenLom1 ],
       [ c |-> "NICE", poi |-> "spv0t4wqznfv", lom1 |-> AgenLom1, lom2 |-> AgenLom1, lom3 |-> AgenLom1 ],
       [ c |-> "NICE", poi |-> "spv0ech3fd2j", lom1 |-> AgenLom1, lom2 |-> AgenLom1, lom3 |-> AgenLom1 ],
       [ c |-> "NIMES", poi |-> "spg168jkp49n", lom1 |-> AgenLom1, lom2 |-> AgenLom1, lom3 |-> AgenLom1 ],
       [ c |-> "ORLEANS", poi |-> "u092ejjv8zr4", lom1 |-> AgenLom1, lom2 |-> AgenLom1, lom3 |-> AgenLom1 ],
       [ c |-> "PAMIERS", poi |-> "sp9jjp7w2c1n", lom1 |-> AgenLom1, lom2 |-> AgenLom1, lom3 |-> AgenLom1 ],
       [ c |-> "PARIS", poi |-> "u09tyu2ceec2", lom1 |-> AgenLom1, lom2 |-> AgenLom1, lom3 |-> AgenLom1 ],
       [ c |-> "PARIS 15", poi |-> "u09tu4vy0h01", lom1 |-> AgenLom1, lom2 |-> AgenLom1, lom3 |-> AgenLom1 ],
       [ c |-> "PARIS 16", poi |-> "u09tg6gmtqn3", lom1 |-> AgenLom1, lom2 |-> AgenLom1, lom3 |-> AgenLom1 ],
       [ c |-> "PARIS 17", poi |-> "u09wh6svjbhc", lom1 |-> AgenLom1, lom2 |-> AgenLom1, lom3 |-> AgenLom1 ],
       [ c |-> "PAU", poi |-> "ezxwqp00d3kc", lom1 |-> AgenLom1, lom2 |-> AgenLom1, lom3 |-> AgenLom1 ],
       [ c |-> "PERIGUEUX", poi |-> "u0094jp8m8d9", lom1 |-> AgenLom1, lom2 |-> AgenLom1, lom3 |-> AgenLom1 ],
       [ c |-> "PERPIGNAN", poi |-> "spd4cbhqe0nn", lom1 |-> AgenLom1, lom2 |-> AgenLom1, lom3 |-> AgenLom1 ],
       [ c |-> "POITIERS", poi |-> "u020z48y1pvr", lom1 |-> AgenLom1, lom2 |-> AgenLom1, lom3 |-> AgenLom1 ],
       [ c |-> "PONTARLIER", poi |-> "u0kdbk1fu9dk", lom1 |-> AgenLom1, lom2 |-> AgenLom1, lom3 |-> AgenLom1 ],
       [ c |-> "PONTOISE", poi |-> "u09qzrguvryd", lom1 |-> AgenLom1, lom2 |-> AgenLom1, lom3 |-> AgenLom1 ],
       [ c |-> "QUIMPER", poi |-> "gbt0unvgwp6y", lom1 |-> AgenLom1, lom2 |-> AgenLom1, lom3 |-> AgenLom1 ],
       [ c |-> "REIMS", poi |-> "u0fbhgjgr7er", lom1 |-> AgenLom1, lom2 |-> AgenLom1, lom3 |-> AgenLom1 ],
       [ c |-> "RENNES", poi |-> "gbwcejnqdz47", lom1 |-> AgenLom1, lom2 |-> AgenLom1, lom3 |-> AgenLom1 ],
       [ c |-> "RIVERY", poi |-> "u0cevq1jhwz0", lom1 |-> AgenLom1, lom2 |-> AgenLom1, lom3 |-> AgenLom1 ],
       [ c |-> "ROANNE", poi |-> "u04vv1sv81g7", lom1 |-> AgenLom1, lom2 |-> AgenLom1, lom3 |-> AgenLom1 ],
       [ c |-> "RODEZ", poi |-> "spcu3yk02cc2", lom1 |-> AgenLom1, lom2 |-> AgenLom1, lom3 |-> AgenLom1 ],
       [ c |-> "ROISSY EN FRANCE", poi |-> "u09y9r7w9pxf", lom1 |-> AgenLom1, lom2 |-> AgenLom1, lom3 |-> AgenLom1 ],
       [ c |-> "ROUEN", poi |-> "u0bc23tp699g", lom1 |-> AgenLom1, lom2 |-> AgenLom1, lom3 |-> AgenLom1 ],
       [ c |-> "ROYAN", poi |-> "gbp7bbkhcd9r", lom1 |-> AgenLom1, lom2 |-> AgenLom1, lom3 |-> AgenLom1 ],
       [ c |-> "RUEIL MALMAISON", poi |-> "u09w1g5234ts", lom1 |-> AgenLom1, lom2 |-> AgenLom1, lom3 |-> AgenLom1 ],
       [ c |-> "SAINT MALO", poi |-> "gbw5cy9m2zty", lom1 |-> AgenLom1, lom2 |-> AgenLom1, lom3 |-> AgenLom1 ],
       [ c |-> "SAINT NAZAIRE", poi |-> "u054etxv57kd", lom1 |-> AgenLom1, lom2 |-> AgenLom1, lom3 |-> AgenLom1 ],
       [ c |-> "SAINT OUEN", poi |-> "gbxpr60j3jt4", lom1 |-> AgenLom1, lom2 |-> AgenLom1, lom3 |-> AgenLom1 ],
       [ c |-> "SAINT VICTORET", poi |-> "gbwsdg3xdnuu", lom1 |-> AgenLom1, lom2 |-> AgenLom1, lom3 |-> AgenLom1 ],
       [ c |-> "SARREGUEMINES", poi |-> "u09v8m4kfspq", lom1 |-> AgenLom1, lom2 |-> AgenLom1, lom3 |-> AgenLom1 ],
       [ c |-> "ST BRIEUC", poi |-> "gbqmnqcmkm8y", lom1 |-> AgenLom1, lom2 |-> AgenLom1, lom3 |-> AgenLom1 ],
       [ c |-> "ST MAUR DES FOSSES", poi |-> "u09wjr2c4h7m", lom1 |-> AgenLom1, lom2 |-> AgenLom1, lom3 |-> AgenLom1 ],
       [ c |-> "ST PRIEST EN JAREZ", poi |-> "spexp042nmvf", lom1 |-> AgenLom1, lom2 |-> AgenLom1, lom3 |-> AgenLom1 ],
       [ c |-> "STLO", poi |-> "u0tp3kxf7h30", lom1 |-> AgenLom1, lom2 |-> AgenLom1, lom3 |-> AgenLom1 ],
       [ c |-> "STRASBOURG", poi |-> "u0tkxg5tkudn", lom1 |-> AgenLom1, lom2 |-> AgenLom1, lom3 |-> AgenLom1 ],
       [ c |-> "TARBES", poi |-> "sp8jcgyubw7r", lom1 |-> AgenLom1, lom2 |-> AgenLom1, lom3 |-> AgenLom1 ],
       [ c |-> "THIONVILLE", poi |-> "u0u2snt3jz0s", lom1 |-> AgenLom1, lom2 |-> AgenLom1, lom3 |-> AgenLom1 ],
       [ c |-> "TOULON", poi |-> "spsm3htxnkj5", lom1 |-> AgenLom1, lom2 |-> AgenLom1, lom3 |-> AgenLom1 ],
       [ c |-> "TOULOUSE", poi |-> "sp9pdf7zp6hg", lom1 |-> AgenLom1, lom2 |-> AgenLom1, lom3 |-> AgenLom1 ],
       [ c |-> "TOULOUSE", poi |-> "spc00x9x1vms", lom1 |-> AgenLom1, lom2 |-> AgenLom1, lom3 |-> AgenLom1 ],
       [ c |-> "TOURS", poi |-> "u02mz4kxdy31", lom1 |-> AgenLom1, lom2 |-> AgenLom1, lom3 |-> AgenLom1 ],
       [ c |-> "TROYES", poi |-> "u0dfs5qrqzwm", lom1 |-> AgenLom1, lom2 |-> AgenLom1, lom3 |-> AgenLom1 ],
       [ c |-> "VALENCE", poi |-> "spgx84jwbrh3", lom1 |-> AgenLom1, lom2 |-> AgenLom1, lom3 |-> AgenLom1 ],
       [ c |-> "VALENCIENNES", poi |-> "u0fw8v2g6yr6", lom1 |-> AgenLom1, lom2 |-> AgenLom1, lom3 |-> AgenLom1 ],
       [ c |-> "VANNES", poi |-> "gbqp0tg83kdk", lom1 |-> AgenLom1, lom2 |-> AgenLom1, lom3 |-> AgenLom1 ],
       [ c |-> "VELIZY VILLACOUBLAY", poi |-> "u09t98r9xhex", lom1 |-> AgenLom1, lom2 |-> AgenLom1, lom3 |-> AgenLom1 ],
       [ c |-> "VESOUL", poi |-> "u0krh06e0gc7", lom1 |-> AgenLom1, lom2 |-> AgenLom1, lom3 |-> AgenLom1 ],
       [ c |-> "VICHY", poi |-> "u04qmdyjbs8u", lom1 |-> AgenLom1, lom2 |-> AgenLom1, lom3 |-> AgenLom1 ],
       [ c |-> "VILLEFRANCHE SUR SAONE", poi |-> "u05meuv2mnhd", lom1 |-> AgenLom1, lom2 |-> AgenLom1, lom3 |-> AgenLom1 ],
       [ c |-> "VIRE", poi |-> "gbxmupekgu50", lom1 |-> AgenLom1, lom2 |-> AgenLom1, lom3 |-> AgenLom1 ],
       [ c |-> "VIRY CHATILLON", poi |-> "u09syjwph181", lom1 |-> AgenLom1, lom2 |-> AgenLom1, lom3 |-> AgenLom1 ]
    >>

\* elem["lom" + rndInt]
lom(elem, rndInt) ==
    CASE rndInt = 1 -> elem.lom1
      [] rndInt = 2 -> elem.lom2
      [] rndInt = 3 -> elem.lom3

\* Math.floor(Math.random() * 3) + 1
RandomDraws == 1..3

\* changeAudioByPoi: poiList.map visits every entry in order and assigns
\* audioToUse at each entry whose poi equals poiId, so the last such entry
\* supplies it; 0 when none does and audioToUse stays undefined.
changeAudioByPoi(poiId) ==
    LET matching == { i \in 1..Len(poiList) : poiList[i].poi = poiId } IN
    IF matching = {} THEN 0
    ELSE CHOOSE i \in matching : \A j \in matching : j <= i

\* The session createEvent(config) returns, after events.trigger('loaded_imp','i').
startedSession ==
    /\ allowRedirect' = FALSE
    /\ alreadyClicked' = FALSE
    /\ eventAlreadyFired' =
         [ n \in TrackNames |->
             IF n = "loaded_imp" THEN RecordAfterFire(n, "i", NoRecord) ELSE NoRecord ]
    /\ aElement' = [ exists |-> FALSE, href |-> "none" ]
    /\ bound' = FALSE
    /\ pixels' = [ n \in TrackNames |-> IF n = "loaded_imp" THEN 1 ELSE 0 ]
    /\ gClickPixels' = 0
    /\ navAllowed' = 0
    /\ everArmed' = FALSE
    /\ occ' = [ n \in TrackNames |-> IF n = "loaded_imp" THEN 1 ELSE 0 ]
    /\ firstType' = [ n \in TrackNames |-> IF n = "loaded_imp" THEN "i" ELSE "none" ]
    /\ onlyI' = [ n \in TrackNames |-> TRUE ]
    /\ pos_interact' = << 1, 1 >>
    /\ constant_params' = {}
    /\ clock' = 0
    /\ lastParams' = addParams("i", RecordAfterFire("loaded_imp", "i", NoRecord),
                               0, << 1, 1 >>, {})
    /\ lastTrack' = [ NoTrack EXCEPT !.op = "trigger", !.name = "loaded_imp",
                                     !.eventType = "i", !.loaded = TRUE ]
    /\ nbCallsInUrl' = callsInUrl(trackerClickUrl)
    /\ lastBuilt' = NoBuilt
    /\ UNCHANGED << hostAddParams, gClickResolved, trackerClickUrl >>

\* startAd(): parses parameters_.poi (JSON.parse raises a SyntaxError when
\* the payload has none), sets the source of the media element from the
\* table and plays it, builds the tracking session from parameters_.config
\* (reading config.macro raises a TypeError when the payload has none),
\* triggers loaded_imp and dispatches AdStarted and AdImpression.
startAd(rndInt) ==
    LET parsed == adParams.poi # "missing"
        entry == changeAudioByPoi(adParams.poi)
        audioToUse == IF entry = 0 THEN "undefined" ELSE lom(poiList[entry], rndInt)
        session == parsed /\ adParams.config
        d1 == IF session THEN dispatch(eventsCallbacks_, "AdStarted")
              ELSE NoDispatch(TRUE)
        d2 == IF session /\ ~d1.thrown THEN dispatch(eventsCallbacks_, "AdImpression")
              ELSE NoDispatch(d1.thrown)
    IN
    /\ videoSlot_' = IF parsed THEN [ videoSlot_ EXCEPT !.src = audioToUse ]
                     ELSE videoSlot_
    /\ srcEntry' = IF parsed THEN entry ELSE srcEntry
    /\ IF session THEN startedSession ELSE UNCHANGED trackVars
    /\ lastCall' = CallRecord("startAd", d1.events \o d2.events,
                              d1.invoked \o d2.invoked, d2.thrown)
    /\ ran' = d1.ran \o d2.ran
    /\ args' = << rndInt >>
    /\ UNCHANGED << attributes_, eventsCallbacks_, lastQuartileIndex_, parameters_,
                    canPlay, initCalled, inited, quartileLog, monotone, tickThrew,
                    timerVars, stopVars, slotAttrs, adParams, playing,
                    lastSubscribed >>

\* initAd with the fields poi and config of the creative payload.
initAdWithParams(width, height, viewMode, desiredBitrate, videos, playable, poiId, config) ==
    /\ initAd(width, height, viewMode, desiredBitrate, videos, playable)
    /\ adParams' = [ poi |-> poiId, config |-> config ]
    /\ ran' = << >>
    /\ args' = << width, height, viewMode, desiredBitrate >>
    /\ UNCHANGED << timerVars, stopVars, slotAttrs, playing, srcEntry,
                    lastSubscribed >>

(***************************************************************************)
(* Specifications of the player.                                           *)
(***************************************************************************)
\* The inputs of initAd.
Widths == { 320, 640 }
Heights == { 180 }
Mimetypes == { "video/mp4", "video/webm" }
Urls == { "a.mp4", "b.webm" }
Candidates == [ url : Urls, mimetype : Mimetypes ]

RECURSIVE SeqsUpTo(_, _)
SeqsUpTo(S, n) ==
    IF n = 0 THEN { <<>> }
    ELSE LET shorter == SeqsUpTo(S, n - 1) IN
         shorter \cup { Append(q, x) : q \in { r \in shorter : Len(r) = n - 1 },
                                       x \in S }

VideoLists == SeqsUpTo(Candidates, MaxVideos)

\* The events a wrapper subscribes to before and while the media plays.
ProgressEvents == QuartileNames \cup { "AdDurationChange" }
LoadEvents == { "AdLoaded", "AdError" }

SubscribeProgress ==
    /\ \E cb \in Callbacks, ev \in ProgressEvents : subscribe(cb, ev)
    /\ UNCHANGED << trackVars, lifeVars >>

InitAdPlayable ==
    /\ initAd(320, 180, "normal", 256,
              << [ url |-> "a.mp4", mimetype |-> "video/mp4" ] >>, { "video/mp4" })
    /\ UNCHANGED << trackVars, lifeVars >>

TimeUpdate ==
    /\ \E dur \in MediaDurations : \E cur \in 0..dur : timeUpdateHandler_(cur, dur)
    /\ UNCHANGED << trackVars, lifeVars >>

NextQuartile == SubscribeProgress \/ InitAdPlayable \/ TimeUpdate

SubscribeLoad ==
    /\ \E cb \in Callbacks, ev \in LoadEvents : subscribe(cb, ev)
    /\ UNCHANGED << trackVars, lifeVars >>

UnsubscribeLoad ==
    /\ \E ev \in LoadEvents : unsubscribe(ev)
    /\ UNCHANGED << trackVars, lifeVars >>

InitAdAny ==
    /\ \E w \in Widths, h \in Heights, videos \in VideoLists,
          playable \in SUBSET Mimetypes :
           initAd(w, h, "normal", 256, videos, playable)
    /\ UNCHANGED << trackVars, lifeVars >>

NextInit == SubscribeLoad \/ UnsubscribeLoad \/ InitAdAny

\* The player as constructed, no tracking session in use.
InitPlayerOnly == InitPlayer /\ InitSession(FALSE, TRUE)

SpecQuartile == InitPlayerOnly /\ [][NextQuartile]_vars

SpecInit == InitPlayerOnly /\ [][NextInit]_vars

(***************************************************************************)
(* Specifications of the tracking session.                                 *)
(***************************************************************************)
\* A session as createEvent returns it, in either environment.
InitTrack ==
    /\ InitPlayer
    /\ \E host \in BOOLEAN, resolved \in BOOLEAN : InitSession(host, resolved)

\* The number of calls of trigger the model makes for a name.
OccBound(name) ==
    IF name = "click" \/ name \in InheritedKeys THEN MaxRepeat ELSE MaxOcc

Trigger ==
    /\ \E name \in TrackNames, eventType \in EventTypes :
          occ[name] < OccBound(name) /\ trigger(name, eventType)
    /\ UNCHANGED << playerVars, lifeVars >>

NextTrigger == Trigger

SpecTrigger == InitTrack /\ [][NextTrigger]_vars

TriggerClick ==
    /\ \E eventType \in EventTypes :
          occ["click"] < MaxRepeat /\ trigger("click", eventType)
    /\ UNCHANGED << playerVars, lifeVars >>

InitLoad == init_load /\ UNCHANGED << playerVars, lifeVars >>

ClickCustom == clickCustom /\ UNCHANGED << playerVars, lifeVars >>

TriggerRedirection == triggerRedirection /\ UNCHANGED << playerVars, lifeVars >>

HandleRedirection == handleRedirection /\ UNCHANGED << playerVars, lifeVars >>

NextGate ==
    TriggerClick \/ InitLoad \/ ClickCustom \/ TriggerRedirection \/ HandleRedirection

SpecGate == InitTrack /\ [][NextGate]_vars

(***************************************************************************)
(* Specifications of the lifecycle operations.                             *)
(***************************************************************************)
\* The inputs of the lifecycle operations.
ViewModes == { "normal", "fullscreen" }
DispatchEvents == { "AdSizeChange" }
SkipEvents == { "AdSkipped" }
\* Volumes a wrapper passes to setAdVolume, in hundredths: 0, 0.25, 0.5, 1
\* and 50.
VolumeInputs == { 0, 25, 50, 1 * VolumeScale, 50 * VolumeScale }
\* The ids of the table, an id the table does not hold, and no poi at all.
PoiInputs == { poiList[i].poi : i \in 1..Len(poiList) } \cup { "unlisted", "missing" }

SubscribeBound ==
    /\ \E f \in Functions, c \in Contexts, ev \in DispatchEvents :
          Len(lastSubscribed[ev]) < MaxSubs /\ subscribeBound(f, ev, c)
    /\ UNCHANGED trackVars

UnsubscribeBound ==
    /\ \E ev \in DispatchEvents : unsubscribeBound(ev)
    /\ UNCHANGED trackVars

ResizeAd ==
    /\ \E w \in Widths, h \in Heights, vm \in ViewModes, domThrows \in BOOLEAN :
          resizeAd(w, h, vm, domThrows)
    /\ UNCHANGED trackVars

NextDispatch == SubscribeBound \/ UnsubscribeBound \/ InitAdPlayable \/ ResizeAd

SpecDispatch == InitPlayerOnly /\ [][NextDispatch]_vars

SubscribeSkip ==
    /\ \E f \in Functions, c \in Contexts, ev \in SkipEvents :
          Len(lastSubscribed[ev]) < MaxSubs /\ subscribeBound(f, ev, c)
    /\ UNCHANGED trackVars

UnsubscribeSkip ==
    /\ \E ev \in SkipEvents : unsubscribeBound(ev)
    /\ UNCHANGED trackVars

SkipAd == skipAd /\ UNCHANGED trackVars

NextSkip == SubscribeSkip \/ UnsubscribeSkip \/ InitAdPlayable \/ SkipAd

SpecSkip == InitPlayerOnly /\ [][NextSkip]_vars

SubscribeVolume ==
    /\ \E cb \in Callbacks : subscribe(cb, "AdVolumeChange")
    /\ UNCHANGED << trackVars, lifeVars >>

UnsubscribeVolume ==
    /\ unsubscribe("AdVolumeChange")
    /\ UNCHANGED << trackVars, lifeVars >>

SetAdVolume ==
    /\ \E value \in VolumeInputs : setAdVolume(value)
    /\ UNCHANGED trackVars

MuteButtonOnClick == muteButtonOnClick_ /\ UNCHANGED trackVars

NextVolume ==
    \/ SubscribeVolume \/ UnsubscribeVolume \/ InitAdPlayable
    \/ SetAdVolume \/ MuteButtonOnClick

SpecVolume == InitPlayerOnly /\ [][NextVolume]_vars

ResumeAd == nextTimerId <= MaxTimers /\ resumeAd /\ UNCHANGED trackVars

PauseAd == pauseAd /\ UNCHANGED trackVars

StopAd == stopCalls < MaxStops /\ stopAd /\ UNCHANGED trackVars

IntervalCallback ==
    /\ \E id \in timers : ticks < MaxTicks /\ intervalCallback(id)
    /\ UNCHANGED trackVars

StopTimeout == stopTimeout /\ UNCHANGED trackVars

NextTimer ==
    InitAdPlayable \/ ResumeAd \/ PauseAd \/ StopAd \/ IntervalCallback \/ StopTimeout

SpecTimer == InitPlayerOnly /\ [][NextTimer]_vars

\* A timeout that was scheduled elapses.
SpecTimerFair == SpecTimer /\ WF_vars(StopTimeout)

NextRemaining ==
    InitAdPlayable \/ ResumeAd \/ PauseAd \/ IntervalCallback \/ TimeUpdate

SpecRemaining == InitPlayerOnly /\ [][NextRemaining]_vars

InitAdWithParams ==
    /\ \E poiId \in PoiInputs, config \in BOOLEAN :
          initAdWithParams(320, 180, "normal", 256,
                           << [ url |-> "a.mp4", mimetype |-> "video/mp4" ] >>,
                           { "video/mp4" }, poiId, config)
    /\ UNCHANGED trackVars

StartAd == \E rndInt \in RandomDraws : startAd(rndInt)

StartEvents == { "AdStarted", "AdImpression" }

SubscribeStart ==
    /\ \E cb \in Callbacks, ev \in StartEvents : subscribe(cb, ev)
    /\ UNCHANGED << trackVars, lifeVars >>

UnsubscribeStart ==
    /\ \E ev \in StartEvents : unsubscribe(ev)
    /\ UNCHANGED << trackVars, lifeVars >>

NextStart == InitAdWithParams \/ StartAd

\* Payloads for the events of startAd: an id of the table, an id it does
\* not hold, no poi; with and without a tracking configuration.
InitAdWithSomeParams ==
    /\ \E poiId \in { poiList[1].poi, "unlisted", "missing" }, config \in BOOLEAN :
          initAdWithParams(320, 180, "normal", 256,
                           << [ url |-> "a.mp4", mimetype |-> "video/mp4" ] >>,
                           { "video/mp4" }, poiId, config)
    /\ UNCHANGED trackVars

NextStartEvents ==
    InitAdWithSomeParams \/ StartAd \/ SubscribeStart \/ UnsubscribeStart

SpecStartEvents == InitTrack /\ [][NextStartEvents]_vars

SpecStart == InitTrack /\ [][NextStart]_vars

(***************************************************************************)
(* Specifications of the firing parameters and the interaction position.   *)
(***************************************************************************)
\* Moments of the session, in milliseconds after timeStart.
Times == { 499, 500, 5000, 2999499, 2999500, 3000000, 3000001, 3500000 }

\* Mouse events (click, mousedown) and touch events (touchstart).
MouseEvents ==
    [ hasClient : { TRUE }, clientX : { 0, 50, 199 }, clientY : { 0, 30 },
      touches : { "undefined" }, touchX : { 0 }, touchY : { 0 } ]

TouchEvents ==
    [ hasClient : { FALSE }, clientX : { 0 }, clientY : { 0 },
      touches : { "coordinates" }, touchX : { 0, 50 }, touchY : { 30 } ]
    \cup
    [ hasClient : { FALSE }, clientX : { 0 }, clientY : { 0 },
      touches : { "empty", "noCoordinates" }, touchX : { 0 }, touchY : { 0 } ]

Advance ==
    /\ \E ms \in Times : advance(ms)
    /\ UNCHANGED << playerVars, lifeVars >>

TriggerImp ==
    /\ \E eventType \in EventTypes :
          occ["loaded_imp"] < MaxRepeat /\ trigger("loaded_imp", eventType)
    /\ UNCHANGED << playerVars, lifeVars >>

GetPosition ==
    /\ \E evt \in MouseEvents \cup TouchEvents : getPosition(evt)
    /\ UNCHANGED << playerVars, lifeVars >>

NextParams == Advance \/ TriggerImp \/ InitLoad

SpecParams == InitTrack /\ [][NextParams]_vars

NextPosition == InitLoad \/ GetPosition \/ TriggerImp

SpecPosition == InitTrack /\ [][NextPosition]_vars

(***************************************************************************)
(* The quartile cursor under progress ticks and lifecycle calls.           *)
(***************************************************************************)
NextCursor == NextQuartile \/ PauseAd \/ StopAd \/ SkipAd

SpecCursor == InitPlayerOnly /\ [][NextCursor]_vars

\* expandAd and collapseAd, with a wrapper that subscribes to AdExpanded.
ExpandEvents == { "AdExpanded" }

SubscribeExpand ==
    /\ \E f \in Functions, c \in Contexts, ev \in ExpandEvents :
          Len(lastSubscribed[ev]) < MaxSubs /\ subscribeBound(f, ev, c)
    /\ UNCHANGED trackVars

UnsubscribeExpand ==
    /\ \E ev \in ExpandEvents : unsubscribeBound(ev)
    /\ UNCHANGED trackVars

ExpandAd ==
    /\ \E elem \in ElemBindings : expandAd(elem)
    /\ UNCHANGED trackVars

CollapseAd == collapseAd /\ UNCHANGED trackVars

NextExpand ==
    SubscribeExpand \/ UnsubscribeExpand \/ InitAdPlayable \/ ExpandAd \/ CollapseAd

SpecExpand == InitPlayerOnly /\ [][NextExpand]_vars

\* Every operation of the player that writes an attribute, and skipAd, with
\* a wrapper that subscribes to AdSkipped.
SubscribeSkipped ==
    /\ \E cb \in Callbacks : subscribe(cb, "AdSkipped")
    /\ UNCHANGED << trackVars, lifeVars >>

TimeUpdateSkippable ==
    /\ \E cur \in 0..MaxDuration : timeUpdateHandler_(cur, MaxDuration)
    /\ UNCHANGED << trackVars, lifeVars >>

SetAdVolumeSkippable ==
    /\ \E value \in { 0, 50 } : setAdVolume(value)
    /\ UNCHANGED trackVars

ResizeAdSkippable ==
    /\ \E vm \in ViewModes : resizeAd(640, 180, vm, FALSE)
    /\ UNCHANGED trackVars

ResumeAdSkippable == intervalId_ = 0 /\ resumeAd /\ UNCHANGED trackVars

NextSkippable ==
    \/ SubscribeSkipped \/ InitAdPlayable \/ TimeUpdateSkippable
    \/ SetAdVolumeSkippable \/ MuteButtonOnClick \/ ResizeAdSkippable
    \/ ResumeAdSkippable \/ IntervalCallback \/ ExpandAd \/ CollapseAd \/ SkipAd

SpecSkippable == InitPlayerOnly /\ [][NextSkippable]_vars

\* buildUrl on sessions with zero to three call parameters in the tracker
\* url, with and without a redirect parameter.
TrackerUrls ==
    { << Param(PlainKey("b"), Str1("B")) >>,
      << Param(PlainKey("r"), Str1("m")), Param(CallKey(0), Str1("t")) >>,
      DemoUrl,
      << Param(CallKey(0), Str1("t")), Param(CallKey(1), Str1("d")),
         Param(CallKey(2), Str1("e")), Param(FlatKey(3), Str1("f")) >> }

\* The urls a creative passes: as redirect target and as server-side pixels.
PixelUrls ==
    { Str4("h", ":", "/", "a"), Str4("h", ":", "/", "b"), Str4("c", ",", "d", "=") }

RedirectUrls == { << >>, Str4("h", ":", "/", "x"), Str1("y") }

ClickPixelLists == SeqsUpTo(PixelUrls, MaxPixels)

InitBuild ==
    /\ InitPlayer
    /\ \E uri \in TrackerUrls : createEvent(TRUE, TRUE, uri)

BuildUrl ==
    /\ \E url \in RedirectUrls, clickPixel \in ClickPixelLists :
          buildUrl(url, clickPixel)
    /\ UNCHANGED << playerVars, lifeVars >>

NextBuildUrl == BuildUrl

SpecBuildUrl == InitBuild /\ [][NextBuildUrl]_vars

\* The player and its tracking session together.
Init == InitTrack

Next ==
    \/ NextQuartile \/ NextInit \/ NextTrigger \/ NextGate
    \/ NextParams \/ NextPosition \/ NextCursor \/ NextStartEvents
    \/ NextExpand \/ NextSkippable \/ NextBuildUrl
    \/ NextDispatch \/ NextSkip \/ NextVolume \/ NextTimer \/ NextRemaining \/ NextStart

Spec == Init /\ [][Next]_vars


(***************************************************************************)
(* Claims about quartile tracking and the duration check (SpecQuartile).   *)
(***************************************************************************)
\* The quartile event names in threshold order.
QuartileOrder == [ i \in 1..Len(quartileEvents_) |-> quartileEvents_[i].event ]

AllQuartilesSubscribed ==
    \A e \in QuartileNames : eventsCallbacks_[e] \in Callbacks

IsQuartile(e) == e \in QuartileNames
IsDurationChange(e) == e = "AdDurationChange"

\* The number of thresholds the percent played has reached.
NumReached(cur, dur) ==
    Cardinality({ i \in 1..Len(quartileEvents_) :
                    percentReached(cur, dur, quartileEvents_[i].value) })

\* The last operation was a progress tick that returned normally.
TickReturned == lastCall.op = "timeupdate" /\ ~lastCall.thrown

\* C1: when every quartile event has a callback, the ticks so far had a
\* non-decreasing percent played, none of them raised, and the latest one
\* reported 100 percent, the five quartile
\* events have each been dispatched exactly once, in threshold order.
C1_EachQuartileOnceInOrder ==
    ( /\ TickReturned /\ AllQuartilesSubscribed
      /\ monotone /\ ~tickThrew
      /\ videoSlot_.currentTime = videoSlot_.duration )
        => quartileLog = QuartileOrder

\* C7: a tick that finds the percent played at or above several thresholds
\* not yet reported dispatches every one of them, in threshold order, in
\* that one call, and leaves the cursor past all of them.
C7_JumpReportsEveryThreshold ==
    LET n == NumReached(videoSlot_.currentTime, videoSlot_.duration) IN
    ( TickReturned /\ AllQuartilesSubscribed /\ n > lastCall.idxBefore + 1 )
        => /\ lastQuartileIndex_ = n
           /\ SelectSeq(lastCall.events, IsQuartile)
                = SubSeq(QuartileOrder, lastCall.idxBefore + 1, n)

\* C8: on every tick (that returns), the cached duration is updated and
\* exactly one AdDurationChange is dispatched when the media duration
\* differs from the cached one, and none is dispatched when it does not.
C8_DurationChangeOnEveryTick ==
    TickReturned =>
        IF lastCall.durationBefore # videoSlot_.duration
        THEN /\ attributes_.duration = videoSlot_.duration
             /\ Len(SelectSeq(lastCall.events, IsDurationChange)) = 1
        ELSE Len(SelectSeq(lastCall.events, IsDurationChange)) = 0

\* C9: once the cursor is at the end of the threshold sequence a tick
\* dispatches no quartile event, and still updates the cached duration and
\* dispatches AdDurationChange when the media duration differs from it.
C9_DurationCheckAfterLastQuartile ==
    ( lastCall.op = "timeupdate" /\ lastCall.idxBefore >= Len(quartileEvents_) )
        => /\ SelectSeq(lastCall.events, IsQuartile) = <<>>
           /\ lastCall.durationBefore # videoSlot_.duration
                => /\ attributes_.duration = videoSlot_.duration
                   /\ SelectSeq(lastCall.events, IsDurationChange)
                        = << "AdDurationChange" >>

(***************************************************************************)
(* Claims about media source selection (SpecInit).                         *)
(***************************************************************************)
\* C10: after initAd the media source is the url of the first candidate of
\* the payload's list whose mimetype the media element can play, whatever
\* follows it in the list, and no AdError was dispatched.
C10_FirstPlayableCandidateSelected ==
    lastCall.op = "initAd" =>
        \A k \in 1..Len(parameters_.videos) :
            ( /\ parameters_.videos[k].mimetype \in canPlay
              /\ \A j \in 1..(k - 1) : parameters_.videos[j].mimetype \notin canPlay )
                => /\ videoSlot_.src = parameters_.videos[k].url
                   /\ \A i \in 1..Len(lastCall.events) : lastCall.events[i] # "AdError"

\* initAd has run on a list whose first candidate cannot be played, whose
\* second can, and which holds a later playable candidate with another url.
C10_Witness ==
    /\ lastCall.op = "initAd"
    /\ Len(parameters_.videos) >= 3
    /\ parameters_.videos[1].mimetype \notin canPlay
    /\ parameters_.videos[2].mimetype \in canPlay
    /\ parameters_.videos[3].mimetype \in canPlay
    /\ parameters_.videos[3].url # parameters_.videos[2].url
    /\ videoSlot_.src = parameters_.videos[2].url


(***************************************************************************)
(* Claims about the click gate (SpecGate).                                 *)
(***************************************************************************)
\* C2: the click-confirmation pixel is loaded at most once, only in a step
\* that takes the gate from armed (allowRedirect, not alreadyClicked) to
\* consumed (alreadyClicked, not allowRedirect), and never before the gate
\* has been armed.
C2_ConfirmationPixelOnlyOnConsume ==
    /\ [](gClickPixels <= 1 /\ (gClickPixels > 0 => everArmed))
    /\ [][ gClickPixels' # gClickPixels =>
             /\ allowRedirect /\ ~alreadyClicked
             /\ alreadyClicked' /\ ~allowRedirect' ]_vars

\* The pixel has been loaded, the gate was armed again, and a later click
\* on the anchor was blocked without loading it a second time.
C2_Witness ==
    /\ gClickPixels = 1
    /\ allowRedirect /\ alreadyClicked
    /\ lastTrack.op = "handleRedirection" /\ ~lastTrack.loaded

\* C3: alreadyClicked never goes back from true to false, and the gate
\* handler lets at most one click on the anchor navigate.
C3_LatchMonotoneOneNavigation ==
    /\ [][ alreadyClicked => alreadyClicked' ]_vars
    /\ [](navAllowed <= 1)

\* One click has navigated, and a later click on the re-armed anchor was
\* stopped by preventDefault.
C3_Witness ==
    /\ navAllowed = 1
    /\ everArmed /\ alreadyClicked
    /\ lastTrack.op = "handleRedirection" /\ lastTrack.prevented

\* C6: trigger("click") loads at most one pixel in a session, and the call
\* that loads it finds alreadyClicked false and leaves it true.
C6_ClickFiresOnce ==
    /\ [](pixels["click"] <= 1)
    /\ [][ pixels'["click"] # pixels["click"] =>
             ~alreadyClicked /\ alreadyClicked' ]_vars

\* trigger("click") has fired once and was then called again, with both
\* event types used, without loading a pixel.
C6_Witness ==
    /\ pixels["click"] = 1
    /\ occ["click"] >= 3 /\ ~onlyI["click"] /\ firstType["click"] = "i"
    /\ lastTrack.op = "trigger" /\ lastTrack.name = "click" /\ ~lastTrack.loaded

(***************************************************************************)
(* Claims about the dedup policy of trigger (SpecTrigger).                 *)
(***************************************************************************)
\* C4: for every name other than "click" that has only been triggered with
\* eventType "i", a call of trigger loads a pixel exactly when it is one of
\* the first 30 calls for that name.
C4_InteractionFiresThirtyTimes ==
    ( /\ lastTrack.op = "trigger" /\ lastTrack.name # "click"
      /\ onlyI[lastTrack.name] )
        => /\ lastTrack.loaded <=> occ[lastTrack.name] <= MaxFires
           /\ pixels[lastTrack.name] =
                IF occ[lastTrack.name] <= MaxFires THEN occ[lastTrack.name]
                ELSE MaxFires

\* C5: for every name other than "click" whose first call of trigger
\* passed eventType "t", a call of trigger loads a pixel exactly when it is
\* the first call for that name, whatever eventType it passes.
C5_TimingFiresOnce ==
    ( /\ lastTrack.op = "trigger" /\ lastTrack.name # "click"
      /\ firstType[lastTrack.name] = "t" )
        => /\ lastTrack.loaded <=> occ[lastTrack.name] = 1
           /\ pixels[lastTrack.name] = 1

\* The two policies hold of every name that is no inherited property.
OrdinaryNamesFollowPolicy ==
    lastTrack.name \in InheritedKeys
        \/ (C4_InteractionFiresThirtyTimes /\ C5_TimingFiresOnce)


(***************************************************************************)
(* Claims about initAd without a playable candidate (SpecInit).            *)
(***************************************************************************)
NoCandidatePlayable ==
    \A k \in 1..Len(parameters_.videos) : parameters_.videos[k].mimetype \notin canPlay

NumEvents(events, e) == Cardinality({ i \in 1..Len(events) : events[i] = e })

\* C11: when no candidate of the payload's list is playable (the empty list
\* included), initAd dispatches exactly one AdError, does not throw, and
\* sets no media source.
C11_NoPlayableCandidateReportsError ==
    (lastCall.op = "initAd" /\ NoCandidatePlayable) =>
        /\ NumEvents(lastCall.events, "AdError") = 1
        /\ ~lastCall.thrown
        /\ videoSlot_.src = "none"

\* What initAd keeps of C11: the same, where neither AdError nor AdLoaded
\* was unsubscribed before the call.
InitAdReportsErrorUnlessUnsubscribed ==
    ( /\ lastCall.op = "initAd"
      /\ NoCandidatePlayable
      /\ eventsCallbacks_["AdError"] # "null"
      /\ eventsCallbacks_["AdLoaded"] # "null" ) =>
        /\ NumEvents(lastCall.events, "AdError") = 1
        /\ ~lastCall.thrown
        /\ videoSlot_.src = "none"


(***************************************************************************)
(* Claims about resizeAd and the dispatcher (SpecDispatch) and about       *)
(* skipAd (SpecSkip).                                                      *)
(***************************************************************************)
\* C12: a resizeAd call after initAd makes getAdWidth and getAdHeight
\* return the new width and height and dispatches exactly one AdSizeChange,
\* whether or not the size mutation of the media element throws.
C12_ResizeUpdatesSizeAndDispatchesOnce ==
    (lastCall.op = "resizeAd" /\ initCalled) =>
        /\ attributes_.width = args[1]
        /\ attributes_.height = args[2]
        /\ lastCall.events = << "AdSizeChange" >>

\* resizeAd has run after initAd with a new width, the size mutation threw.
C12_Witness ==
    /\ lastCall.op = "resizeAd"
    /\ initCalled
    /\ args[4]
    /\ args[1] = 640
    /\ attributes_.width = 640
    /\ slotAttrs.width # 640
    /\ lastCall.events = << "AdSizeChange" >>
    /\ lastCall.invoked = << "AdSizeChange" >>

\* C14: dispatching an event name that has no bound callback, never
\* subscribed or subscribed and then unsubscribed, is a no-op and does not
\* raise.
C14_DispatchWithoutCallbackIsNoOp ==
    ( /\ lastCall.op = "resizeAd"
      /\ initCalled
      /\ lastSubscribed["AdSizeChange"] = << >> ) =>
        /\ ~lastCall.thrown
        /\ lastCall.invoked = << >>

\* What callEvent_ keeps of C14: the no-op for a name never subscribed.
DispatchNeverSubscribedIsNoOp ==
    ( /\ lastCall.op = "resizeAd"
      /\ initCalled
      /\ eventsCallbacks_["AdSizeChange"] = "absent" ) =>
        /\ ~lastCall.thrown
        /\ lastCall.invoked = << >>

\* C15: an event name has at most one bound callback, and a dispatch of it
\* invokes once the callback of the latest subscribe call, bound to the
\* context of that call, and none of an earlier call.
C15_DispatchInvokesLatestSubscription ==
    /\ Len(ran) <= 1
    /\ lastCall.op = "resizeAd" /\ initCalled =>
         LET subs == lastSubscribed["AdSizeChange"] IN
         ran = IF subs = << >> THEN << >>
               ELSE << bind(subs[Len(subs)][1], subs[Len(subs)][2]) >>

\* AdSizeChange was dispatched after two subscribe calls for it with
\* different functions and contexts, and the second one's callback ran.
C15_Witness ==
    /\ lastCall.op = "resizeAd"
    /\ initCalled
    /\ Len(lastSubscribed["AdSizeChange"]) = 2
    /\ lastSubscribed["AdSizeChange"][1] = << "f1", "ctxA" >>
    /\ lastSubscribed["AdSizeChange"][2] = << "f2", "ctxB" >>
    /\ ran = << bind("f2", "ctxB") >>

\* The program state skipAd could change.
skipScope ==
    << attributes_, eventsCallbacks_, lastQuartileIndex_, videoSlot_, parameters_,
       intervalId_, timers, nextTimerId, stopTimeouts, slotAttrs, adParams >>

\* C18: skipAd dispatches exactly one AdSkipped when skippableState is true,
\* and dispatches nothing and changes no state when it is false.
C18_SkipOnlyWhenSkippable ==
    /\ [](\A skippableState \in BOOLEAN :
            \A cb \in { "absent", "null", bind("f1", "ctxA") } :
               skipStep(skippableState,
                        [ eventsCallbacks_ EXCEPT !["AdSkipped"] = cb ]).events
                 = IF skippableState THEN << "AdSkipped" >> ELSE << >>)
    /\ [](lastCall.op = "skipAd" =>
            lastCall.events = IF attributes_.skippableState
                              THEN << "AdSkipped" >> ELSE << >>)
    /\ [][ (lastCall'.op = "skipAd" /\ ~attributes_.skippableState)
              => UNCHANGED skipScope ]_vars

\* skipAd has run while a callback was subscribed to AdSkipped and
\* skippableState was false, and dispatched nothing.
C18_Witness ==
    /\ lastCall.op = "skipAd"
    /\ ~attributes_.skippableState
    /\ eventsCallbacks_["AdSkipped"] \notin { "absent", "null" }
    /\ lastCall.events = << >>
    /\ ran = << >>


(***************************************************************************)
(* Claims about startAd's media source (SpecStart).                        *)
(***************************************************************************)
InTable(poiId) == \E i \in 1..Len(poiList) : poiList[i].poi = poiId

Variants(i) == { poiList[i].lom1, poiList[i].lom2, poiList[i].lom3 }

\* C13: for an id the table holds, startAd sets the media source to one of
\* the three variant URLs of that id's own entry, for every random draw, and
\* never to a URL of another id's entry.
C13_SourceIsOwnVariantOnly ==
    (lastCall.op = "startAd" /\ InTable(adParams.poi)) =>
        /\ \E i \in 1..Len(poiList) :
              poiList[i].poi = adParams.poi /\ videoSlot_.src \in Variants(i)
        /\ \A j \in 1..Len(poiList) :
              poiList[j].poi # adParams.poi => videoSlot_.src \notin Variants(j)

\* What startAd keeps of C13: the source is read from the entry of the
\* payload's id, from the field the random draw names.
StartAdReadsOwnEntry ==
    (lastCall.op = "startAd" /\ InTable(adParams.poi)) =>
        /\ srcEntry \in 1..Len(poiList)
        /\ poiList[srcEntry].poi = adParams.poi
        /\ videoSlot_.src = lom(poiList[srcEntry], args[1])


(***************************************************************************)
(* Claims about the timers (SpecTimer, SpecTimerFair, SpecRemaining).      *)
(***************************************************************************)
\* C16: after pauseAd or stopAd has returned, and until the next resumeAd,
\* no remaining-time timer is running and no timer callback runs, also
\* after several resumeAd calls.
C16_NoTimerAfterPauseOrStop ==
    /\ ~playing => timers = {}
    /\ lastCall.op = "intervalCallback" => playing

C20_RemainingTimeNeverIncreases ==
    [][ (playing /\ playing') =>
           attributes_'.remainingTime <= attributes_.remainingTime ]_vars


(***************************************************************************)
(* Claims about the volume (SpecVolume).                                   *)
(***************************************************************************)
\* C19: the stored volume attribute lies between 0 and 1 in every reachable
\* state, after any setAdVolume calls and mute-button toggles.
C19_VolumeWithinUnitRange ==
    /\ 0 <= attributes_.volume
    /\ attributes_.volume <= 1 * VolumeScale

\* What the mute button keeps of C19: it stores 0 or 1.
MuteButtonStoresZeroOrOne ==
    lastCall.op = "muteButtonOnClick_" => attributes_.volume \in { 0, 1 * VolumeScale }


(***************************************************************************)
(* Claims about the firing parameters (SpecParams, SpecPosition).          *)
(***************************************************************************)
\* C21: the parameter t of a firing is the number of seconds since the
\* session started, capped at 3000 and rounded to the nearest integer: an
\* integer between 0 and 3000, 5 after 5 seconds, 3000 after 3500 seconds.
C21_ElapsedCappedAndRounded ==
    lastParams.et # "none" =>
        LET capped == IF lastParams.ms > MaxElapsed * MsPerSecond
                      THEN MaxElapsed * MsPerSecond ELSE lastParams.ms
        IN
        /\ lastParams.t \in 0..MaxElapsed
        /\ 2 * (lastParams.t * MsPerSecond - capped) <= MsPerSecond
        /\ 2 * (capped - lastParams.t * MsPerSecond) <= MsPerSecond
        /\ lastParams.ms = 5 * MsPerSecond => lastParams.t = 5
        /\ lastParams.ms = 3500 * MsPerSecond => lastParams.t = MaxElapsed

\* A pixel was fired 3500 seconds after the session started, with t 3000.
C21_Witness ==
    /\ lastTrack.op = "trigger"
    /\ lastTrack.loaded
    /\ lastParams.ms = 3500 * MsPerSecond
    /\ lastParams.t = MaxElapsed

\* The coordinates of an event are available when it has its own or its
\* first target touch has them.
Available(e) == e.hasClient \/ e.touches = "coordinates"

PositionOf(e) ==
    << round((IF e.hasClient THEN e.clientX ELSE e.touchX) * 100, ScreenX),
       round((IF e.hasClient THEN e.clientY ELSE e.touchY) * 100, ScreenY) >>

\* C29: on every click, mouse-down or touch-start event getPosition sets the
\* last interaction position to the rounded percentage pair of the event's
\* coordinates, or to "0_0" when they are unavailable, and never raises.
C29_PositionOrFallbackNeverRaises ==
    lastTrack.op = "getPosition" =>
        /\ ~lastTrack.thrown
        /\ pos_interact = IF Available(lastTrack.evt) THEN PositionOf(lastTrack.evt)
                          ELSE << 0, 0 >>

\* What getPosition keeps of C29: the same for a mouse event whose clientX
\* and clientY are not 0 and for a touch event with a first target touch.
PositionUnlessZeroOrNoTouch ==
    ( /\ lastTrack.op = "getPosition"
      /\ lastTrack.evt.hasClient =>
           (lastTrack.evt.clientX # 0 /\ lastTrack.evt.clientY # 0)
      /\ ~lastTrack.evt.hasClient => lastTrack.evt.touches # "empty" ) =>
        /\ ~lastTrack.thrown
        /\ pos_interact = IF Available(lastTrack.evt) THEN PositionOf(lastTrack.evt)
                          ELSE << 0, 0 >>


(***************************************************************************)
(* More claims about the click gate (SpecGate).                            *)
(***************************************************************************)
\* C22: a click on the redirect anchor while the gate is idle is prevented
\* from navigating and leaves the gate idle: neither flag changes and no
\* confirmation pixel is loaded.
C22_IdleClickIsPrevented ==
    [][ (lastTrack'.op = "handleRedirection" /\ ~allowRedirect /\ ~alreadyClicked) =>
           /\ lastTrack'.prevented
           /\ ~allowRedirect'
           /\ ~alreadyClicked'
           /\ gClickPixels' = gClickPixels
           /\ navAllowed' = navAllowed ]_vars

\* The anchor was clicked while the gate was idle, with an element bound.
C22_Witness ==
    /\ lastTrack.op = "handleRedirection"
    /\ lastTrack.prevented
    /\ bound
    /\ ~everArmed
    /\ ~allowRedirect
    /\ ~alreadyClicked
    /\ navAllowed = 0

\* C23: a click on a bound element while the gate is idle sets the redirect
\* anchor's href to the computed redirect url and arms the gate, without
\* loading the confirmation pixel.
C23_BoundClickArms ==
    [][ (lastTrack'.op = "triggerRedirection" /\ ~allowRedirect /\ ~alreadyClicked) =>
           /\ allowRedirect'
           /\ aElement'.exists
           /\ aElement'.href = "redirect"
           /\ gClickPixels' = gClickPixels ]_vars

\* What triggerRedirection keeps of C23: the same where the host page
\* defines a global addParams and init_load has created the anchor.
BoundClickArmsWithHostAddParams ==
    [][ ( /\ lastTrack'.op = "triggerRedirection"
          /\ ~allowRedirect /\ ~alreadyClicked
          /\ hostAddParams /\ aElement.exists ) =>
           /\ allowRedirect'
           /\ aElement'.href = "redirect"
           /\ gClickPixels' = gClickPixels ]_vars

\* C24: once the gate is consumed (alreadyClicked, not allowRedirect) it is
\* never armed again and no click is allowed to navigate.
C24_ConsumedIsTerminal ==
    [][ (alreadyClicked /\ ~allowRedirect) =>
           (~allowRedirect' /\ navAllowed' = navAllowed) ]_vars

\* What the gate keeps of C24: after the latch no click navigates.
NoNavigationAfterLatch ==
    [][ alreadyClicked => (alreadyClicked' /\ navAllowed' = navAllowed) ]_vars

\* C30: a click on the redirect anchor while the gate is armed and the
\* gClick macro is an unresolved placeholder loads no confirmation pixel,
\* is allowed to navigate and consumes the gate.
C30_UnresolvedMacroSkipsPixel ==
    [][ ( /\ lastTrack'.op = "handleRedirection"
          /\ allowRedirect /\ ~alreadyClicked
          /\ ~gClickResolved ) =>
           /\ gClickPixels' = gClickPixels
           /\ ~lastTrack'.loaded
           /\ ~lastTrack'.prevented
           /\ navAllowed' = navAllowed + 1
           /\ alreadyClicked'
           /\ ~allowRedirect' ]_vars

\* The armed gate was clicked with an unresolved macro: one navigation, no
\* confirmation pixel, gate consumed.
C30_Witness ==
    /\ lastTrack.op = "handleRedirection"
    /\ ~lastTrack.prevented
    /\ ~gClickResolved
    /\ everArmed
    /\ navAllowed = 1
    /\ gClickPixels = 0
    /\ alreadyClicked
    /\ ~allowRedirect


(***************************************************************************)
(* More claims about startAd (SpecStart, SpecStartEvents).                 *)
(***************************************************************************)
\* C25: when the payload's id has no entry in the table, startAd leaves the
\* source of the media element as it was and raises and dispatches no error.
C25_UnlistedIdLeavesSource ==
    [][ ( /\ lastCall'.op = "startAd"
          /\ adParams.poi # "missing"
          /\ adParams.config
          /\ ~InTable(adParams.poi) ) =>
           /\ videoSlot_'.src = videoSlot_.src
           /\ ~lastCall'.thrown
           /\ NumEvents(lastCall'.events, "AdError") = 0 ]_vars

\* The payload startAd needs: a poi and a tracking configuration.
ValidPayload == adParams.poi # "missing" /\ adParams.config

\* C27: a startAd call with a valid payload fires the loaded_imp pixel once
\* and then dispatches AdStarted and AdImpression once each, in that order.
C27_StartFiresPixelThenEvents ==
    (lastCall.op = "startAd" /\ ValidPayload) =>
        /\ pixels["loaded_imp"] = 1
        /\ lastTrack.op = "trigger" /\ lastTrack.name = "loaded_imp"
        /\ lastTrack.eventType = "i" /\ lastTrack.loaded
        /\ lastCall.events = << "AdStarted", "AdImpression" >>

\* What startAd keeps of C27: the same where neither AdStarted nor
\* AdImpression was unsubscribed before the call.
StartFiresPixelThenEventsUnlessUnsubscribed ==
    ( /\ lastCall.op = "startAd"
      /\ ValidPayload
      /\ eventsCallbacks_["AdStarted"] # "null"
      /\ eventsCallbacks_["AdImpression"] # "null" ) =>
        /\ pixels["loaded_imp"] = 1
        /\ lastTrack.op = "trigger" /\ lastTrack.name = "loaded_imp"
        /\ lastTrack.eventType = "i" /\ lastTrack.loaded
        /\ lastCall.events = << "AdStarted", "AdImpression" >>
        /\ ~lastCall.thrown


(***************************************************************************)
(* More claims about initAd (SpecInit) and the cursor (SpecCursor).        *)
(***************************************************************************)
\* C28: an initAd call that returns has dispatched AdLoaded exactly once,
\* as its last event: alone when a source was found, after one AdError
\* when none was.
C28_LoadedDispatchedLast ==
    (lastCall.op = "initAd" /\ ~lastCall.thrown) =>
        /\ NumEvents(lastCall.events, "AdLoaded") = 1
        /\ lastCall.events[Len(lastCall.events)] = "AdLoaded"
        /\ lastCall.events = IF NoCandidatePlayable
                             THEN << "AdError", "AdLoaded" >>
                             ELSE << "AdLoaded" >>

\* initAd has returned on a payload without a playable candidate, with a
\* callback subscribed to AdError and to AdLoaded.
C28_Witness ==
    /\ lastCall.op = "initAd"
    /\ ~lastCall.thrown
    /\ NoCandidatePlayable
    /\ Len(parameters_.videos) > 0
    /\ lastCall.events = << "AdError", "AdLoaded" >>
    /\ lastCall.invoked = << "AdError", "AdLoaded" >>

\* C26: the quartile cursor never decreases and stays between 0 and the
\* number of thresholds, under progress ticks and lifecycle calls.
C26_CursorMonotoneInRange ==
    /\ [](lastQuartileIndex_ \in 0..Len(quartileEvents_))
    /\ [][ lastQuartileIndex_' >= lastQuartileIndex_ ]_vars

\* The cursor has reached the end of the thresholds and a lifecycle call
\* was made since.
C26_Witness ==
    /\ lastQuartileIndex_ = Len(quartileEvents_)
    /\ lastCall.op \in { "pauseAd", "stopAd", "skipAd" }


(***************************************************************************)
(* Claims about a quartile without a callback (SpecQuartile) and about     *)
(* the number of timers (SpecTimer).                                       *)
(***************************************************************************)
\* The threshold the cursor is at is reached by the tick that is being
\* made, and no callback was ever subscribed to its event.
TickReachesUnsubscribedQuartile ==
    /\ lastCall'.op = "timeupdate"
    /\ inited
    /\ lastQuartileIndex_ < Len(quartileEvents_)
    /\ percentReached(videoSlot_'.currentTime, videoSlot_'.duration,
                      quartileEvents_[lastQuartileIndex_ + 1].value)
    /\ eventsCallbacks_[quartileEvents_[lastQuartileIndex_ + 1].event] = "absent"

\* C31: a tick that reaches the current threshold while no callback is
\* subscribed to its event does not raise and moves the cursor past the
\* threshold, so that the event does not fire after a later subscription.
C31_UnsubscribedQuartileIsSkipped ==
    [][ TickReachesUnsubscribedQuartile =>
           /\ ~lastCall'.thrown
           /\ lastQuartileIndex_' = lastQuartileIndex_ + 1
           /\ quartileLog' = quartileLog ]_vars

\* What timeUpdateHandler_ keeps of C31: with a callback subscribed to the
\* event of the threshold, the tick that reaches it invokes the callback
\* and moves the cursor by one.
SubscribedQuartileAdvances ==
    [][ ( /\ lastCall'.op = "timeupdate"
          /\ inited
          /\ lastQuartileIndex_ < Len(quartileEvents_)
          /\ percentReached(videoSlot_'.currentTime, videoSlot_'.duration,
                            quartileEvents_[lastQuartileIndex_ + 1].value)
          /\ eventsCallbacks_[quartileEvents_[lastQuartileIndex_ + 1].event]
               \in Callbacks ) =>
           /\ lastQuartileIndex_' = lastQuartileIndex_ + 1
           /\ quartileLog' =
                Append(quartileLog, quartileEvents_[lastQuartileIndex_ + 1].event) ]_vars

\* C33: at most one remaining-time interval timer is active, also when
\* resumeAd is called while a timer is running.
C33_AtMostOneTimer ==
    Cardinality(timers) <= 1

\* What the player keeps of C33: the timer intervalId_ names is the latest
\* one started, and pauseAd and stopAd clear that one.
IntervalIdIsLatestTimer ==
    intervalId_ # 0 => intervalId_ = nextTimerId - 1


(***************************************************************************)
(* Claims about the latch shared by trigger and the gate (SpecGate).       *)
(***************************************************************************)
\* C34: once trigger("click") has fired, the gate handler prevents every
\* click from navigating and loads no confirmation pixel, also when the
\* gate is armed; once the gate was consumed, trigger("click") loads no
\* pixel.
C34_ClickAndGateShareLatch ==
    /\ [][ pixels["click"] >= 1 =>
             /\ navAllowed' = navAllowed
             /\ gClickPixels' = gClickPixels
             /\ (lastTrack'.op = "handleRedirection" => lastTrack'.prevented) ]_vars
    /\ [][ navAllowed >= 1 => pixels'["click"] = pixels["click"] ]_vars

\* trigger("click") has fired, the gate was armed afterwards, and the click
\* on the armed anchor was prevented.
C34_Witness ==
    /\ pixels["click"] = 1
    /\ allowRedirect
    /\ lastTrack.op = "handleRedirection"
    /\ lastTrack.prevented
    /\ navAllowed = 0
    /\ gClickPixels = 0


(***************************************************************************)
(* More claims about the dedup policy and the fire records (SpecTrigger).  *)
(***************************************************************************)
\* The names trigger treats by the policy of their fire record.
PolicyNames == TrackNames \ { "click" }

\* C35: the policy of a name other than "click" is fixed by the eventType
\* of its first firing: the record keeps that type, a name first fired as
\* "i" fires on every call until 30 pixels whatever type the call passes,
\* and a name first fired as "t" never fires again.
C35_PolicyFixedByFirstFiring ==
    [][ \A n \in PolicyNames :
          /\ (pixels[n] = 0 /\ pixels'[n] = 1) =>
                eventAlreadyFired'[n].et = lastTrack'.eventType
          /\ pixels[n] >= 1 =>
                /\ eventAlreadyFired'[n].et = eventAlreadyFired[n].et
                /\ pixels'[n] # pixels[n] <=>
                     /\ lastTrack'.op = "trigger" /\ lastTrack'.name = n
                     /\ occ'[n] # occ[n]
                     /\ eventAlreadyFired[n].et = "i"
                     /\ pixels[n] < MaxFires ]_vars

\* A name first fired as interaction has fired for the thirtieth time on a
\* call that passed the timing type.
C35_Witness ==
    /\ lastTrack.op = "trigger"
    /\ lastTrack.name = "loaded_imp"
    /\ lastTrack.eventType = "t"
    /\ lastTrack.loaded
    /\ firstType["loaded_imp"] = "i"
    /\ eventAlreadyFired["loaded_imp"].et = "i"
    /\ pixels["loaded_imp"] = MaxFires

\* C38: every fire record that has a counter ni has 1 <= ni <= 30, and the
\* ni of an interaction event other than "click" is the number of pixels
\* loaded for its name.
C38_FireCounterInRange ==
    \A n \in TrackNames :
        (eventAlreadyFired[n].present /\ eventAlreadyFired[n].hasNi) =>
            /\ eventAlreadyFired[n].ni \in 1..MaxFires
            /\ (n # "click" /\ eventAlreadyFired[n].et = "i") =>
                  eventAlreadyFired[n].ni = pixels[n]

\* An interaction event has reached the ceiling and was triggered again,
\* and the click has its record.
C38_Witness ==
    /\ eventAlreadyFired["loaded_imp"].hasNi
    /\ eventAlreadyFired["loaded_imp"].ni = MaxFires
    /\ pixels["loaded_imp"] = MaxFires
    /\ occ["loaded_imp"] > MaxFires
    /\ eventAlreadyFired["click"].present
    /\ eventAlreadyFired["click"].ni = MaxFires


(***************************************************************************)
(* Claims about skippableState (SpecSkippable) and expandAd (SpecExpand).  *)
(***************************************************************************)
\* C36: no operation sets the attribute skippableState to true, so
\* getAdSkippableState() returns false in every state and no call, skipAd
\* included, dispatches AdSkipped.
C36_NeverSkippable ==
    /\ ~getAdSkippableState
    /\ NumEvents(lastCall.events, "AdSkipped") = 0
    /\ NumEvents(lastCall.invoked, "AdSkipped") = 0

\* skipAd was called with a callback subscribed to AdSkipped, after the
\* operations that write attributes had run, and dispatched nothing.
C36_Witness ==
    /\ lastCall.op = "skipAd"
    /\ eventsCallbacks_["AdSkipped"] \in Callbacks
    /\ inited
    /\ attributes_.expanded
    /\ attributes_.volume = 50
    /\ attributes_.viewMode = "fullscreen"
    /\ timers # {}
    /\ ticks > 0

\* C37: expandAd sets the attribute expanded to true, so that
\* getAdExpanded() returns true, and dispatches exactly one AdExpanded,
\* without raising.
C37_ExpandDispatchesOnce ==
    lastCall.op = "expandAd" =>
        /\ getAdExpanded
        /\ ~lastCall.thrown
        /\ lastCall.events = << "AdExpanded" >>

\* What expandAd keeps of C37: the attribute is set in every case, and the
\* event is dispatched once where the host page defines a global elem and
\* AdExpanded was not unsubscribed.
ExpandSetsAttributeAndDispatchesWithElem ==
    lastCall.op = "expandAd" =>
        /\ getAdExpanded
        /\ (args[1] # "undeclared" /\ eventsCallbacks_["AdExpanded"] # "null") =>
              (~lastCall.thrown /\ lastCall.events = << "AdExpanded" >>)


(***************************************************************************)
(* Claim about buildUrl (SpecBuildUrl).                                    *)
(***************************************************************************)
\* The positions of the redirect url whose key is call[j].
CallPositions(redirect, j) ==
    { p \in 1..Len(redirect) : redirect[p].key = CallKey(j) }

\* The call parameters of the tracker url are where and what they were.
ExistingCallsKept ==
    \A p \in 1..Len(trackerClickUrl) :
        trackerClickUrl[p].key.form = "bracket" =>
            /\ p <= Len(lastBuilt.redirect)
            /\ lastBuilt.redirect[p] = trackerClickUrl[p]

\* C32: for a clickPixel list of k urls and a tracker url with n call
\* parameters, the url buildUrl returns has, for each i in 0..k-1, one
\* parameter call[n+i] that carries the i-th url of the list, and the n
\* call parameters of the tracker url unchanged.
C32_EachPixelInItsOwnCall ==
    lastTrack.op = "buildUrl" =>
        /\ \A i \in 0..(Len(lastBuilt.clickPixel) - 1) :
              /\ Cardinality(CallPositions(lastBuilt.redirect, nbCallsInUrl + i)) = 1
              /\ \A p \in CallPositions(lastBuilt.redirect, nbCallsInUrl + i) :
                    lastBuilt.redirect[p].value =
                        encodeURIComponent(lastBuilt.clickPixel[i + 1])
        /\ ExistingCallsKept

\* What buildUrl keeps of C32: the k parameters call[n] .. call[n+k-1] are
\* there, once each, and the tracker's own are kept; but each of the k
\* carries the whole list, joined by commas, which is the i-th url only
\* for a list of one.
EachCallCarriesWholeList ==
    lastTrack.op = "buildUrl" =>
        /\ \A i \in 0..(Len(lastBuilt.clickPixel) - 1) :
              /\ Cardinality(CallPositions(lastBuilt.redirect, nbCallsInUrl + i)) = 1
              /\ \A p \in CallPositions(lastBuilt.redirect, nbCallsInUrl + i) :
                    /\ lastBuilt.redirect[p].value =
                         encodeURIComponent(toString(lastBuilt.clickPixel))
                    /\ Len(lastBuilt.clickPixel) = 1 =>
                         lastBuilt.redirect[p].value =
                             encodeURIComponent(lastBuilt.clickPixel[i + 1])
        /\ ExistingCallsKept

====
